---- MODULE Spec2Model ----
(***************************************************************************)
(* Resilience layer of mcp-gemini-web: the token-bucket rate limiter, the  *)
(* retry engine, the error classifier and GeminiClient.generateContent.    *)
(*                                                                         *)
(* JavaScript runs every callback to completion on one thread, so one      *)
(* action of this model is one run of code between two awaits.             *)
(***************************************************************************)
EXTENDS Integers, Sequences, FiniteSets, TLC

VARIABLES
  \* ---- TokenBucket (src/src/lib/rateLimiter.ts 17..92)
  capacity,           \* this.capacity, in tokens
  requestsPerMinute,  \* config.requestsPerMinute; refillRate = requestsPerMinute / 60000
  tokens,             \* this.state.tokens, in units of 1/60000 token
  elapsed,            \* Date.now() - this.state.lastRefill, in ms (saturated, see ElapsedCap)
  callers,            \* per caller of acquire: where its loop stands
  left,               \* acquire calls the callers may still issue
  observed,           \* history: what the bucket method run in the last step returned
  supplied,           \* history: units ever put in the bucket (saturated at SupplyCap)
  granted,            \* history: units ever debited by acquire
  \* ---- isRetryableError (src/src/lib/rateLimiter.ts 137..171)
  err,                \* the value handed to isRetryableError
  verdict,            \* whether it was called, and what it returned
  \* ---- retryWithBackoff / retryWithBackoffOrThrow (src/src/lib/rateLimiter.ts 200..257)
  config,             \* the RetryConfig
  run,                \* the locals of one retryWithBackoff run, and its history
  outer,              \* how retryWithBackoffOrThrow settled
  \* ---- GeminiClient (src/src/lib/client.ts 33..247)
  env,                \* process.env: the settings the factories read
  client,             \* defaultModel, fallbackModel, defaultTimeout, retryConfig; config: the
                      \* ClientConfig its constructor was given
  metrics,            \* this.metrics
  call,               \* the generateContent call in progress, and its history
  \* ---- generateContentBatch (src/src/lib/client.ts 108..127)
  batch,              \* one generateContentBatch call: its items, Promise.allSettled's slots
  \* ---- researchCall (src/src/types/config.ts 194..315)
  research            \* one researchCall: its locals, and the calls it made

bucketVars == <<capacity, requestsPerMinute, tokens, elapsed, callers, left, observed, supplied, granted>>

classifyVars == <<err, verdict>>

retryVars == <<config, run, outer>>

clientVars == <<env, client, metrics, call>>

orchVars == <<batch, research>>

nonBucketVars == <<classifyVars, retryVars, clientVars, orchVars>>

vars == <<bucketVars, classifyVars, retryVars, clientVars, orchVars>>

\* ------------------------------------------------------------------ bounds
NumCallers == 2
MaxBurst == 2
MaxAcquires == 3
MaxBack == 1
MaxMsgLen == 3
MaxRetriesBound == 2
RandSteps == 3
MaxCalls == 2
MaxPlan == 3
MaxLongPlan == 7
MaxChunks == 3
MaxAttempt == 7

\* ------------------------------------------------------------- arithmetic
Min(a, b) == IF a <= b THEN a ELSE b

Max(a, b) == IF a >= b THEN a ELSE b

\* Math.ceil(a / b) for a >= 0, b > 0
CeilDiv(a, b) == (a + b - 1) \div b

\* ====================================================== thrown values
\* A string is a sequence of lexemes: the words below, kept whole. A number
\* lexeme is a maximal run of digits, so no two of them are adjacent.
networkPatterns == {"econnreset", "etimedout", "enotfound", "econnrefused",
                    "socket hang up", "network error", "fetch failed"}

NumberLexemes == {"429", "502", "503", "500", "4290", "42"}

\* The lexemes the messages of the model are made of
Lexemes == {"econnreset", "fetch failed", "ECONNRESET", "status", " ", "x"} \cup NumberLexemes

\* Every signature of the list, alone and inside a longer message
SignatureMessages == {<<p>> : p \in networkPatterns} \cup {<<"x", p, "x">> : p \in networkPatterns}

\* String.prototype.toLowerCase, lexeme by lexeme
lowerLexeme(l) ==
    CASE l = "ECONNRESET" -> "econnreset"
      [] l = "ETIMEDOUT" -> "etimedout"
      [] OTHER -> l

toLowerCase(m) == [i \in 1..Len(m) |-> lowerLexeme(m[i])]

\* Whether lexeme l holds the string p: itself, or "timedout" inside "etimedout"
containsSub(l, p) == l = p \/ (l = "etimedout" /\ p = "timedout")

\* String.prototype.includes(p) for a one-lexeme pattern p
includes(m, p) == \E i \in 1..Len(m) : containsSub(m[i], p)

\* parseInt of the first three digits of a number lexeme; -1 when it has fewer
firstThreeDigits(l) ==
    CASE l = "429" -> 429
      [] l = "4290" -> 429
      [] l = "502" -> 502
      [] l = "503" -> 503
      [] l = "500" -> 500
      [] OTHER -> -1

\* The places where /status\s+(\d{3})/ matches m: "status", at least one white
\* space, at least three digits.
statusMatchesAt(m, i) ==
    /\ m[i] = "status"
    /\ \E j \in (i + 2)..Len(m) :
          /\ \A k \in (i + 1)..(j - 1) : m[k] = " "
          /\ firstThreeDigits(m[j]) >= 0

\* The captured group of the leftmost match, as parseInt reads it; -1 for no match.
statusMatch(m) ==
    LET at == {i \in 1..Len(m) : statusMatchesAt(m, i)}
    IN  IF at = {} THEN -1
        ELSE LET i == CHOOSE x \in at : \A y \in at : x <= y
                 j == CHOOSE x \in (i + 2)..Len(m) :
                        /\ \A k \in (i + 1)..(x - 1) : m[k] = " "
                        /\ firstThreeDigits(m[x]) >= 0
             IN  firstThreeDigits(m[j])

\* The messages of up to n lexemes
Messages(n) == {m \in UNION {[1..k -> Lexemes] : k \in 0..n} :
                \A i \in 1..(Len(m) - 1) : ~(m[i] \in NumberLexemes /\ m[i + 1] \in NumberLexemes)}
               \cup SignatureMessages

\* A thrown value. kind: an Error instance, another object, or a string primitive.
\* flag: its "retryable" property: absent, true, false, or another value.
\* message: error.message (the string itself for a string). status, code: the
\* numeric status and the code the SDK attaches. id: which throw made it.
Value(kind, flag, message, status, code, id) ==
    [kind |-> kind, flag |-> flag, message |-> message, status |-> status, code |-> code, id |-> id]

Flags == {"absent", "true", "false", "other"}

\* The values with a message of up to n lexemes
ThrownValues(n) ==
    {Value("Error", f, m, -1, "", 0) : f \in Flags, m \in Messages(n)}
    \cup {Value("object", f, <<>>, -1, "", 0) : f \in Flags}
    \cup {Value("string", "absent", m, -1, "", 0) : m \in Messages(n)}

\* ====================================================== isRetryableError
retryableStatuses == {429, 503, 502}

isRetryableErrorMutMessageFirst(error) ==
    IF error.kind = "Error" /\ (\E p \in networkPatterns : includes(toLowerCase(error.message), p))
      THEN TRUE
    ELSE IF error.kind # "string" /\ error.flag # "absent" THEN error.flag = "true"
    ELSE IF error.kind # "Error" THEN FALSE
    ELSE IF statusMatch(toLowerCase(error.message)) >= 0
      THEN statusMatch(toLowerCase(error.message)) \in retryableStatuses
    ELSE FALSE

isRetryableError(error) ==
    IF error.kind # "string" /\ error.flag # "absent" THEN error.flag = "true"
    ELSE IF error.kind # "Error" THEN FALSE
    ELSE LET errorMessage == toLowerCase(error.message)
         IN  IF \E p \in networkPatterns : includes(errorMessage, p) THEN TRUE
             ELSE IF statusMatch(errorMessage) >= 0
               THEN statusMatch(errorMessage) \in retryableStatuses
             ELSE FALSE

NoVerdict == [called |-> FALSE, value |-> FALSE]

ClassifyParked == err = Value("string", "absent", <<>>, -1, "", 0) /\ verdict = NoVerdict

Classify ==
    /\ ~verdict.called
    /\ verdict' = [called |-> TRUE, value |-> isRetryableError(err)]
    /\ UNCHANGED <<err, bucketVars, retryVars, clientVars, orchVars>>

\* ============================================================ RetryEngine
RECURSIVE TwoToThe(_)
TwoToThe(n) == IF n <= 0 THEN 1 ELSE 2 * TwoToThe(n - 1)

\* config.jitterFactor is kept in tenths; Math.random() returned rnd / RandSteps.
JitterDen == 10

\* calculateDelay(attempt, config) when Math.random() returns rnd / RandSteps;
\* calculateDelayMutNoCap leaves out the cap at maxDelay
calculateDelayMutNoCap(attempt, cfg, rnd) ==
    LET cappedDelay == cfg.baseDelay * TwoToThe(attempt)
        num == cappedDelay * JitterDen * RandSteps
                 + (2 * rnd - RandSteps) * cappedDelay * cfg.jitterFactor
    IN  Max(0, num \div (JitterDen * RandSteps))

calculateDelay(attempt, cfg, rnd) ==
    LET exponentialDelay == cfg.baseDelay * TwoToThe(attempt)
        cappedDelay == Min(exponentialDelay, cfg.maxDelay)
        \* cappedDelay + (random * 2 - 1) * cappedDelay * jitterFactor, over JitterDen * RandSteps
        num == cappedDelay * JitterDen * RandSteps
                 + (2 * rnd - RandSteps) * cappedDelay * cfg.jitterFactor
    IN  Max(0, num \div (JitterDen * RandSteps))

NoError == Value("undefined", "absent", <<>>, -1, "", 0)

\* What an attempt resolves with: the text, the model asked, which invocation
\* answered and the grounding sources. NoData is "undefined".
Response(text, model, id) == [text |-> text, model |-> model, id |-> id, sources |-> <<>>]

NoData == Response("", "", 0)

NoResult == [success |-> FALSE, data |-> NoData, error |-> NoError, attempts |-> 0, totalDelay |-> 0]

\* String(error) for a value that is no Error instance
stringOf(error) == IF error.kind = "string" THEN error.message ELSE <<"[object Object]">>

\* error instanceof Error ? error : new Error(String(error))
asError(error) ==
    IF error.kind = "Error" THEN error
    ELSE Value("Error", "absent", stringOf(error), -1, "", error.id)

\* What one attempt of fn does: it resolves with data or throws a value.
Resolved(d) == [ok |-> TRUE, data |-> d, thrown |-> NoError]

Threw(v) == [ok |-> FALSE, data |-> NoData, thrown |-> v]

\* The locals of retryWithBackoff before the loop, and the history of the run:
\* the calls of fn, the sleeps, how the calls settled and the delays slept.
readyRun ==
    [pc |-> "ready", attempt |-> 0, lastError |-> NoError, totalDelay |-> 0,
     result |-> NoResult, invoked |-> 0, slept |-> 0, outcomes |-> <<>>, delays |-> <<>>]

\* The loop is entered (or re-entered) with r.attempt: "attempt <= config.maxRetries"
\* and "await fn()", or the return after the loop (lines 237..242).
enterLoop(r, cfg) ==
    IF r.attempt <= cfg.maxRetries
      THEN [r EXCEPT !.pc = "calling", !.invoked = @ + 1]
      ELSE [r EXCEPT !.pc = "returned",
              !.result = [success |-> FALSE, data |-> NoData, error |-> r.lastError,
                          attempts |-> cfg.maxRetries + 1, totalDelay |-> r.totalDelay]]

isLastAttemptMutOffByOne(r, cfg) == r.attempt + 1 = cfg.maxRetries

isLastAttempt(r, cfg) == r.attempt = cfg.maxRetries

\* lastError after a throw (line 217)
caughtMutKeepFirst(r, thrown) == IF r.lastError = NoError THEN asError(thrown) ELSE r.lastError

caught(r, thrown) == asError(thrown)

\* Whether the catch block returns the failure instead of retrying (line 221)
givesUpMutIgnoreClass(r, cfg, lastError) == isLastAttempt(r, cfg)

givesUp(r, cfg, lastError) == ~isRetryableError(lastError) \/ isLastAttempt(r, cfg)

\* "await fn()" settled with outcome o: lines 210..233, up to the sleep.
onSettledMutRethrow(r, cfg, o, rnd) ==
    LET h == [r EXCEPT !.outcomes = Append(@, o)]
        lastError == caught(r, o.thrown)
        delay == calculateDelay(r.attempt, cfg, rnd)
    IN  IF o.ok
          THEN [h EXCEPT !.pc = "returned",
                  !.result = [success |-> TRUE, data |-> o.data, error |-> NoError,
                              attempts |-> r.attempt + 1, totalDelay |-> r.totalDelay]]
        ELSE IF givesUp(r, cfg, lastError)
          THEN [h EXCEPT !.pc = "raised", !.lastError = lastError]
        ELSE [h EXCEPT !.pc = "sleeping", !.lastError = lastError,
                  !.totalDelay = @ + delay, !.slept = @ + 1, !.delays = Append(@, delay)]

\* onSettledMutLastDelay keeps the last delay instead of the sum
onSettledMutLastDelay(r, cfg, o, rnd) ==
    LET h == [r EXCEPT !.outcomes = Append(@, o)]
        lastError == caught(r, o.thrown)
        delay == calculateDelay(r.attempt, cfg, rnd)
    IN  IF o.ok
          THEN [h EXCEPT !.pc = "returned",
                  !.result = [success |-> TRUE, data |-> o.data, error |-> NoError,
                              attempts |-> r.attempt + 1, totalDelay |-> r.totalDelay]]
        ELSE IF givesUp(r, cfg, lastError)
          THEN [h EXCEPT !.pc = "returned", !.lastError = lastError,
                  !.result = [success |-> FALSE, data |-> NoData, error |-> lastError,
                              attempts |-> r.attempt + 1, totalDelay |-> r.totalDelay]]
        ELSE [h EXCEPT !.pc = "sleeping", !.lastError = lastError,
                  !.totalDelay = delay, !.slept = @ + 1, !.delays = Append(@, delay)]

onSettled(r, cfg, o, rnd) ==
    LET h == [r EXCEPT !.outcomes = Append(@, o)]
        lastError == caught(r, o.thrown)
        delay == calculateDelay(r.attempt, cfg, rnd)
    IN  IF o.ok
          THEN [h EXCEPT !.pc = "returned",
                  !.result = [success |-> TRUE, data |-> o.data, error |-> NoError,
                              attempts |-> r.attempt + 1, totalDelay |-> r.totalDelay]]
        ELSE IF givesUp(r, cfg, lastError)
          THEN [h EXCEPT !.pc = "returned", !.lastError = lastError,
                  !.result = [success |-> FALSE, data |-> NoData, error |-> lastError,
                              attempts |-> r.attempt + 1, totalDelay |-> r.totalDelay]]
        ELSE [h EXCEPT !.pc = "sleeping", !.lastError = lastError,
                  !.totalDelay = @ + delay, !.slept = @ + 1, !.delays = Append(@, delay)]

\* "await sleep(delay)" is over: attempt++ and the loop test.
\* onSleepDoneMutStuck never leaves the sleep.
onSleepDoneMutStuck(r, cfg) == r

onSleepDone(r, cfg) == enterLoop([r EXCEPT !.attempt = @ + 1], cfg)

\* retryWithBackoffOrThrow, once retryWithBackoff has returned result
orThrowMutSwallow(result) == [settled |-> TRUE, raised |-> FALSE, value |-> result.data, error |-> NoError]

orThrow(result) ==
    IF ~result.success
      THEN [settled |-> TRUE, raised |-> TRUE, value |-> NoData, error |-> result.error]
      ELSE [settled |-> TRUE, raised |-> FALSE, value |-> result.data, error |-> NoError]

\* ---- one run of retryWithBackoffOrThrow(fn, config), fn free to do anything
FnData(id) == {Response(t, "fn", id) : t \in {"d1", "d2"}}

\* What fn throws in the model: Error instances of every class isRetryableError
\* tells apart, a string and a plain object.
FnThrows(id) ==
    { Value("Error", "absent", <<"fetch failed">>, -1, "", id),
      Value("Error", "absent", <<"status", " ", "503">>, -1, "", id),
      Value("Error", "absent", <<"status", " ", "500">>, -1, "", id),
      Value("Error", "true", <<"x">>, -1, "", id),
      Value("Error", "false", <<"fetch failed">>, -1, "", id),
      Value("string", "absent", <<"fetch failed">>, -1, "", id),
      Value("object", "true", <<>>, -1, "", id) }

NotSettled == [settled |-> FALSE, raised |-> FALSE, value |-> NoData, error |-> NoError]

Configs ==
    [maxRetries : 0..MaxRetriesBound, baseDelay : {1000}, maxDelay : {1500, 60000},
     jitterFactor : {0, 5}]

RetryParked ==
    /\ config = [maxRetries |-> 0, baseDelay |-> 1000, maxDelay |-> 60000, jitterFactor |-> 0]
    /\ run = readyRun
    /\ outer = NotSettled

\* retryWithBackoffOrThrow is called: the loop starts and fn is invoked.
RetryStart ==
    /\ run.pc = "ready"
    /\ run' = enterLoop(run, config)
    /\ UNCHANGED <<config, outer, bucketVars, classifyVars, clientVars, orchVars>>

FnResolves(d) ==
    /\ run.pc = "calling"
    /\ run' = onSettled(run, config, Resolved(d), 0)
    /\ UNCHANGED <<config, outer, bucketVars, classifyVars, clientVars, orchVars>>

FnRejects(v, rnd) ==
    /\ run.pc = "calling"
    /\ run' = onSettled(run, config, Threw(v), rnd)
    /\ UNCHANGED <<config, outer, bucketVars, classifyVars, clientVars, orchVars>>

SleepDone ==
    /\ run.pc = "sleeping"
    /\ run' = onSleepDone(run, config)
    /\ UNCHANGED <<config, outer, bucketVars, classifyVars, clientVars, orchVars>>

OrThrowSettles ==
    /\ run.pc = "returned"
    /\ ~outer.settled
    /\ outer' = orThrow(run.result)
    /\ UNCHANGED <<config, run, bucketVars, classifyVars, clientVars, orchVars>>

\* =========================================================== TokenBucket
\* The divisor of "config.requestsPerMinute / 60000": the bucket is kept in units
\* of 1/60000 token, so that one millisecond refills requestsPerMinute units.
MsPerMinute == 60000

Units(n) == n * MsPerMinute

Callers == 1..NumCallers

\* requestsPerMinute values the model draws from: 1.5 ms and 0.5 ms per token.
RpmChoices == {40000, 120000}

\* The smallest elapsed time that refills any bucket to capacity: refill() caps
\* at capacity, so every larger elapsed time behaves the same.
ElapsedCap == CeilDiv(Units(capacity), requestsPerMinute)

\* Saturation point of the history variable supplied: no run debits more.
SupplyCap == Units(MaxAcquires * MaxBurst)

\* refill(): the state after it, from tokens t and elapsed time e.
refillMutNoCap(t, e) == IF e <= 0 THEN [tokens |-> t, elapsed |-> e]
    ELSE [tokens |-> t + e * requestsPerMinute, elapsed |-> 0]

refillMutNoAdd(t, e) == [tokens |-> t, elapsed |-> IF e <= 0 THEN e ELSE 0]

refill(t, e) == IF e <= 0 THEN [tokens |-> t, elapsed |-> e]
    ELSE [tokens |-> Min(Units(capacity), t + e * requestsPerMinute), elapsed |-> 0]

\* calculateWaitTime(tokensNeeded), after its refill() left t units in the bucket.
waitTimeMutAnyToken(t, tokensNeeded) == IF t > 0 THEN 0
    ELSE CeilDiv(Units(tokensNeeded) - t, requestsPerMinute)

waitTime(t, tokensNeeded) == IF t >= Units(tokensNeeded) THEN 0
    ELSE CeilDiv(Units(tokensNeeded) - t, requestsPerMinute)

\* observed when no bucket method returned in the last step
NotObserved == [op |-> "none", value |-> 0, waited |-> FALSE]

Supply(added) == Min(SupplyCap, supplied + added)

\* One iteration of acquire's loop for caller c wanting n tokens: lines 61..66,
\* which hold no await between the check and the debit. woken: the iteration
\* runs after a sleep.
acquireLoop(c, n, woken) ==
    LET r == refill(tokens, elapsed)
        w == waitTime(r.tokens, n)
    IN  /\ elapsed' = r.elapsed
        /\ supplied' = Supply(r.tokens - tokens)
        /\ IF w = 0
             THEN /\ tokens' = r.tokens - Units(n)
                  /\ granted' = granted + Units(n)
                  /\ observed' = [op |-> "acquire", value |-> n, waited |-> woken]
                  /\ callers' = [callers EXCEPT ![c] =
                        [pc |-> "idle", need |-> 0, timer |-> 0]]
             ELSE /\ tokens' = r.tokens
                  /\ granted' = granted
                  /\ observed' = NotObserved
                  /\ callers' = [callers EXCEPT ![c] =
                        [pc |-> "sleeping", need |-> n, timer |-> w]]
        /\ UNCHANGED <<capacity, requestsPerMinute>>

\* A caller calls acquire(n): the first iteration runs synchronously in the call.
Acquire(c, n) ==
    /\ callers[c].pc = "idle"
    /\ left > 0
    /\ left' = left - 1
    /\ acquireLoop(c, n, FALSE)
    /\ UNCHANGED nonBucketVars

\* The timer of "await sleep(waitTime)" has fired: the loop recomputes.
TimerFires(c) ==
    /\ callers[c].pc = "sleeping"
    /\ callers[c].timer = 0
    /\ left' = left
    /\ acquireLoop(c, callers[c].need, TRUE)
    /\ UNCHANGED nonBucketVars

GetAvailableTokens ==
    LET r == refill(tokens, elapsed)
    IN  /\ tokens' = r.tokens
        /\ elapsed' = r.elapsed
        /\ supplied' = Supply(r.tokens - tokens)
        /\ observed' = [op |-> "getAvailableTokens", value |-> r.tokens, waited |-> FALSE]
        /\ UNCHANGED <<capacity, requestsPerMinute, callers, left, granted, nonBucketVars>>

\* calculateWaitTime(n) returns, called as op; waitQueryMutConsumes debits the
\* tokens it finds
waitQueryMutConsumes(op, n) ==
    LET r == refill(tokens, elapsed)
    IN  /\ tokens' = IF r.tokens >= Units(n) THEN r.tokens - Units(n) ELSE r.tokens
        /\ elapsed' = r.elapsed
        /\ supplied' = Supply(r.tokens - tokens)
        /\ observed' = [op |-> op, value |-> waitTime(r.tokens, n), waited |-> FALSE]
        /\ UNCHANGED <<capacity, requestsPerMinute, callers, left, granted, nonBucketVars>>

waitQuery(op, n) ==
    LET r == refill(tokens, elapsed)
    IN  /\ tokens' = r.tokens
        /\ elapsed' = r.elapsed
        /\ supplied' = Supply(r.tokens - tokens)
        /\ observed' = [op |-> op, value |-> waitTime(r.tokens, n), waited |-> FALSE]
        /\ UNCHANGED <<capacity, requestsPerMinute, callers, left, granted, nonBucketVars>>

CalculateWaitTime(n) == waitQuery("calculateWaitTime", n)

\* GeminiClient.getEstimatedWaitTime() (client.ts 235..237)
GetEstimatedWaitTime == waitQuery("getEstimatedWaitTime", 1)

Reset ==
    /\ tokens' = Units(capacity)
    /\ elapsed' = 0
    /\ supplied' = Supply(Units(capacity) - tokens)
    /\ observed' = NotObserved
    /\ UNCHANGED <<capacity, requestsPerMinute, callers, left, granted, nonBucketVars>>

\* One millisecond passes: Date.now() and the timers' clock both advance. A timer
\* that has run out stays due until its callback runs (TimerFires), so a longer
\* wait is a run of Tick steps.
Tick ==
    /\ elapsed' = Min(ElapsedCap, elapsed + 1)
    /\ callers' = [c \in Callers |-> [callers[c] EXCEPT !.timer = Max(0, @ - 1)]]
    /\ observed' = NotObserved
    /\ UNCHANGED <<capacity, requestsPerMinute, tokens, left, supplied, granted, nonBucketVars>>

\* The wall clock is set: Date.now() jumps (backward as far as MaxBack before
\* lastRefill, or forward), the timers do not.
ClockJump(e) ==
    /\ e /= elapsed
    /\ elapsed' = e
    /\ observed' = NotObserved
    /\ UNCHANGED <<capacity, requestsPerMinute, tokens, callers, left, supplied, granted, nonBucketVars>>

\* ======================================== process.env and the factories
\* A setting is a string, kept as the sequence of its characters; <<>> is a
\* setting that is not set (or set to the empty string: both are falsy).
Digits == <<"0", "1", "2", "3", "4", "5", "6", "7", "8", "9">>

isDigit(ch) == \E d \in 1..10 : Digits[d] = ch

digitOf(ch) == (CHOOSE d \in 1..10 : Digits[d] = ch) - 1

\* The number the leading digits of s spell, after acc
RECURSIVE leadingDigits(_, _)
leadingDigits(s, acc) ==
    IF s = <<>> \/ ~isDigit(Head(s)) THEN acc
    ELSE leadingDigits(Tail(s), acc * 10 + digitOf(Head(s)))

RECURSIVE trimStart(_)
trimStart(s) == IF s # <<>> /\ Head(s) = " " THEN trimStart(Tail(s)) ELSE s

\* parseInt(s, 10) of a string that starts, after white space and a sign, with
\* a digit: the digits up to the first other character. (A string with no
\* leading number gives NaN; the model draws no such setting.)
parseInt(s) ==
    LET t == trimStart(s)
    IN  IF t # <<>> /\ Head(t) = "-" THEN 0 - leadingDigits(Tail(t), 0)
        ELSE leadingDigits(t, 0)

\* What follows the leading digits of s
RECURSIVE afterDigits(_)
afterDigits(s) == IF s = <<>> \/ ~isDigit(Head(s)) THEN s ELSE afterDigits(Tail(s))

\* parseFloat(s) in tenths (see JitterDen), for a string of digits with at most
\* one decimal
parseFloat(s) ==
    LET rest == afterDigits(trimStart(s))
    IN  leadingDigits(trimStart(s), 0) * 10
          + (IF Len(rest) >= 2 /\ rest[1] = "." /\ isDigit(rest[2]) THEN digitOf(rest[2]) ELSE 0)

\* process.env.X || d
orDefault(setting, d) == IF setting = <<>> THEN d ELSE setting

\* n as a setting, for n in 0..9
decimal(n) == <<Digits[n + 1]>>

\* createRetryConfig() (rateLimiter.ts 269..276); BASE_RETRY_DELAY and
\* MAX_RETRY_DELAY are not set in the model
createRetryConfig(e) ==
    [maxRetries |-> parseInt(orDefault(e.MAX_RETRIES, <<"5">>)),
     baseDelay |-> parseInt(<<"1", "0", "0", "0">>),
     maxDelay |-> parseInt(<<"6", "0", "0", "0", "0">>),
     jitterFactor |-> parseFloat(orDefault(e.JITTER_FACTOR, <<"0", ".", "1">>))]

\* The RateLimiterConfig createGeminiClient passes (client.ts 291..294)
rateLimiterSettings(e) ==
    [requestsPerMinute |-> parseInt(orDefault(e.RATE_LIMIT_RPM, <<"6", "0">>)),
     maxBurst |-> parseInt(orDefault(e.RATE_LIMIT_MAX_BURST, <<"1", "0">>))]

\* The RateLimiterConfig createRateLimiter passes (rateLimiter.ts 105..111)
createRateLimiter(e) ==
    [requestsPerMinute |-> Max(1, parseInt(orDefault(e.RATE_LIMIT_RPM, <<"6", "0">>))),
     maxBurst |-> Max(1, parseInt(orDefault(e.RATE_LIMIT_MAX_BURST, <<"1", "0">>)))]

\* The ClientConfig createGeminiClient passes (client.ts 285..301); MODEL and
\* REQUEST_TIMEOUT are not set in the model
configFromEnv(e) ==
    [timeout |-> parseInt(<<"6", "0", "0", "0", "0">>),
     defaultModel |-> "gemini-3-flash-preview",
     fallbackModel |-> "gemini-2.5-flash",
     rateLimiter |-> rateLimiterSettings(e),
     retry |-> [maxRetries |-> parseInt(orDefault(e.MAX_RETRIES, <<"5">>)),
                baseDelay |-> parseInt(<<"1", "0", "0", "0">>),
                maxDelay |-> parseInt(<<"6", "0", "0", "0", "0">>),
                jitterFactor |-> parseFloat(orDefault(e.JITTER_FACTOR, <<"0", ".", "1">>))]]

\* ========================================================== GeminiClient
\* The fields new GeminiClient(cfg) sets (lines 39..52) when process.env is e
GeminiClient(cfg, e) ==
    [defaultModel |-> IF cfg.defaultModel # "" THEN cfg.defaultModel ELSE "gemini-3-flash-preview",
     fallbackModel |-> cfg.fallbackModel,
     defaultTimeout |-> cfg.timeout,
     retryConfig |-> createRetryConfig(e),
     config |-> cfg]

\* process.env with MAX_RETRIES = m and JITTER_FACTOR = 0, the rest not set
EnvOf(m) ==
    [RATE_LIMIT_RPM |-> <<>>, RATE_LIMIT_MAX_BURST |-> <<>>, MAX_RETRIES |-> decimal(m),
     JITTER_FACTOR |-> <<"0">>]

\* The ClientConfigs of the model: a one-token bucket refilled every
\* millisecond, retry settings as createGeminiClient reads them from e
ClientConfigs(fallbackModels, retries) ==
    [timeout : {9}, defaultModel : {"A"}, fallbackModel : fallbackModels,
     rateLimiter : {[requestsPerMinute |-> MsPerMinute, maxBurst |-> 1]},
     retry : [maxRetries : retries, baseDelay : {1000}, maxDelay : {60000}, jitterFactor : {0}]]

\* { ...this.retryConfig, maxRetries: 2 }: the retries of the fallback model
FallbackMaxRetries == 2

Models == {"A", "B"}

\* What ai.models.generateContent throws in the model: HTTP 429, HTTP 503 named
\* in the message, a failed fetch, a timeout, HTTP 400.
RemoteThrows(id) ==
    { Value("Error", "absent", <<"x">>, 429, "", id),
      Value("Error", "absent", <<"status", " ", "503">>, 503, "", id),
      Value("Error", "absent", <<"fetch failed">>, -1, "", id),
      Value("Error", "absent", <<"x">>, -1, "ETIMEDOUT", id),
      Value("Error", "absent", <<"x">>, 400, "", id) }

RateLimitError(message, id) == Value("Error", "true", message, 429, "RATE_LIMIT_EXCEEDED", id)

TimeoutError(message, id) == Value("Error", "true", message, 408, "TIMEOUT", id)

\* The catch block of executeWithTimeout (lines 165..194): what it throws for error.
normalizeThrown(error) ==
    LET message == toLowerCase(IF error.kind = "Error" THEN error.message ELSE stringOf(error))
        code == lowerLexeme(error.code)
    IN  IF error.status = 429
          THEN RateLimitError(IF error.kind = "Error" THEN error.message
                              ELSE <<"Rate limit exceeded">>, error.id)
        ELSE IF containsSub(code, "timedout") \/ includes(message, "timeout")
          THEN TimeoutError(IF error.kind = "Error" THEN error.message
                            ELSE <<"Request timed out">>, error.id)
        ELSE error

\* executeWithTimeout, once ai.models.generateContent settled with outcome o
executeWithTimeout(o) == IF o.ok THEN o ELSE Threw(normalizeThrown(o.thrown))

\* The condition of the fallback (lines 83..87), error being what the primary threw
triesFallbackMutSameModel(model, error) ==
    client.fallbackModel # "" /\ isRetryableError(error)

triesFallbackMutAnyError(model, error) ==
    client.fallbackModel # "" /\ model # client.fallbackModel

triesFallback(model, error) ==
    /\ client.fallbackModel # ""
    /\ model # client.fallbackModel
    /\ isRetryableError(error)

\* The error generateContent records and throws once the fallback threw too (lines 93..98)
terminalErrorMutFallback(primaryError, fallbackError) == fallbackError

terminalError(primaryError, fallbackError) == primaryError

fallbackConfigMutOneMore == [client.retryConfig EXCEPT !.maxRetries = FallbackMaxRetries + 1]

fallbackConfig == [client.retryConfig EXCEPT !.maxRetries = FallbackMaxRetries]

\* lastErrorTimeSet: this.metrics.lastErrorTime holds a time (is not undefined);
\* lastErrorAge: Date.now() - this.metrics.lastErrorTime, which TimePasses advances
recordErrorMutNoCount(m, error) ==
    [m EXCEPT !.lastError = error, !.lastErrorTimeSet = TRUE, !.lastErrorAge = 0]

recordError(m, error) ==
    [m EXCEPT !.errorsTotal = @ + 1, !.lastError = error, !.lastErrorTimeSet = TRUE,
              !.lastErrorAge = 0]

\* finally { this.metrics.requestsPending-- }
finallyMutSkip(m) == m

finally(m) == [m EXCEPT !.requestsPending = @ - 1]

\* The remote attempt under way, or the last one: the time it has been awaited,
\* whether it settled and what ai.models.generateContent threw
NoAttempt == [waited |-> 0, settled |-> FALSE, threw |-> NoError]

\* How a healthCheck call settled
NoHealth == [settled |-> FALSE, raised |-> FALSE, value |-> FALSE]

\* probe: the call is the one healthCheck makes; health: how healthCheck settled
idleCall ==
    [pc |-> "idle", model |-> "", timeout |-> 0, run |-> readyRun, primaryError |-> NoError,
     error |-> NoError, data |-> NoData, remote |-> <<>>, attempt |-> NoAttempt,
     probe |-> FALSE, health |-> NoHealth]

\* The call c with run r, fn invoked anew when r is calling: the remote call made.
\* invokedMutDefaultTimeout hands the fallback attempts the client's default timeout.
invokedMutDefaultTimeout(c, r, model, phase) ==
    [c EXCEPT !.pc = phase, !.run = r,
       !.remote = IF r.pc = "calling"
                    THEN Append(@, [model |-> model, phase |-> phase,
                                    timeout |-> IF phase = "fallback" THEN client.defaultTimeout
                                                ELSE c.timeout])
                    ELSE @,
       !.attempt = IF r.pc = "calling" THEN NoAttempt ELSE @]

invoked(c, r, model, phase) ==
    [c EXCEPT !.pc = phase, !.run = r,
       !.remote = IF r.pc = "calling"
                    THEN Append(@, [model |-> model, phase |-> phase, timeout |-> c.timeout])
                    ELSE @,
       !.attempt = IF r.pc = "calling" THEN NoAttempt ELSE @]

\* The attempt of c settled with outcome o
attemptSettled(c, o) == [c EXCEPT !.attempt.settled = TRUE, !.attempt.threw = o.thrown]

\* String.prototype.trim for the texts of the model: "t", " " and ""
trim(text) == IF text = " " THEN "" ELSE text

\* healthCheck (lines 200..215) once its generateContent call c has settled
healthCheckMutNoTrim(c) ==
    IF ~c.probe \/ c.pc \notin {"resolved", "rejected"} THEN c
    ELSE [c EXCEPT !.health = [settled |-> TRUE, raised |-> FALSE,
                               value |-> c.pc = "resolved" /\ c.data.text # ""]]

healthCheck(c) ==
    IF ~c.probe \/ c.pc \notin {"resolved", "rejected"} THEN c
    ELSE [c EXCEPT !.health = [settled |-> TRUE, raised |-> FALSE,
                               value |-> c.pc = "resolved" /\ trim(c.data.text) # ""]]

resolved(c, r, data) == [c EXCEPT !.pc = "resolved", !.run = r, !.data = data]

rejected(c, r, error) == [c EXCEPT !.pc = "rejected", !.run = r, !.error = error]

\* The call c and the metrics m once the retry run of c's current phase became r:
\* the rest of generateContent (lines 80..101) when the run has returned.
afterRunOf(c, m, r) ==
    LET out == orThrow(r.result)
    IN  IF r.pc # "returned"
          THEN [call |-> invoked(c, r, IF c.pc = "primary" THEN c.model
                                          ELSE client.fallbackModel, c.pc),
                metrics |-> m]
        ELSE IF ~out.raised
          THEN [call |-> resolved(c, r, out.value), metrics |-> finally(m)]
        ELSE IF c.pc = "primary" /\ triesFallback(c.model, out.error)
          THEN [call |-> invoked([c EXCEPT !.primaryError = out.error],
                                 enterLoop(readyRun, fallbackConfig),
                                 client.fallbackModel, "fallback"),
                metrics |-> m]
        ELSE IF c.pc = "primary"
          THEN [call |-> rejected([c EXCEPT !.primaryError = out.error], r, out.error),
                metrics |-> finally(recordError(m, out.error))]
        ELSE LET error == terminalError(c.primaryError, out.error)
             IN  [call |-> rejected(c, r, error),
                  metrics |-> finally(recordError(m, error))]

afterRun(r) == afterRunOf(call, metrics, r)

\* generateContent(params, timeout) is called: lines 65..69, acquire's first
\* iteration included. paramsModel "" and timeout -1 stand for "not given".
\* beginCallMutCountsFirst counts the request before it acquires.
beginCallMutCountsFirst(paramsModel, timeout, probe) ==
    /\ call.pc \in {"idle", "resolved", "rejected"}
    /\ metrics.requestsTotal < MaxCalls
    /\ acquireLoop(1, 1, FALSE)
    /\ call' = [idleCall EXCEPT
                  !.pc = IF observed'.op = "acquire" THEN "acquired" ELSE "acquiring",
                  !.model = IF paramsModel # "" THEN paramsModel ELSE client.defaultModel,
                  !.timeout = IF timeout # -1 THEN timeout ELSE client.defaultTimeout,
                  !.probe = probe]
    /\ metrics' = [metrics EXCEPT !.requestsTotal = @ + 1, !.requestsPending = @ + 1]
    /\ UNCHANGED <<left, env, client, classifyVars, retryVars, orchVars>>

beginCall(paramsModel, timeout, probe) ==
    /\ call.pc \in {"idle", "resolved", "rejected"}
    /\ metrics.requestsTotal < MaxCalls
    /\ acquireLoop(1, 1, FALSE)
    /\ call' = [idleCall EXCEPT
                  !.pc = IF observed'.op = "acquire" THEN "acquired" ELSE "acquiring",
                  !.model = IF paramsModel # "" THEN paramsModel ELSE client.defaultModel,
                  !.timeout = IF timeout # -1 THEN timeout ELSE client.defaultTimeout,
                  !.probe = probe]
    /\ UNCHANGED <<left, env, client, metrics, classifyVars, retryVars, orchVars>>

GenerateContent(paramsModel, timeout) == beginCall(paramsModel, timeout, FALSE)

\* healthCheck(timeoutMs = 10000)
DefaultProbeTimeout == 10000

\* healthCheck(timeoutMs) is called (lines 200..210): generateContent with the
\* default model; -1 stands for "not given".
HealthCheck(timeoutMs) ==
    beginCall(client.defaultModel, IF timeoutMs # -1 THEN timeoutMs ELSE DefaultProbeTimeout, TRUE)

\* The timer of acquire's sleep fired for the call
AcquireWakes ==
    /\ call.pc = "acquiring"
    /\ callers[1].timer = 0
    /\ acquireLoop(1, 1, TRUE)
    /\ call' = [call EXCEPT !.pc = IF observed'.op = "acquire" THEN "acquired" ELSE "acquiring"]
    /\ UNCHANGED <<left, env, client, metrics, classifyVars, retryVars, orchVars>>

\* acquire() resolved: lines 72..79, up to the first await of the primary run
AfterAcquire ==
    /\ call.pc = "acquired"
    /\ metrics' = [metrics EXCEPT !.requestsTotal = @ + 1, !.requestsPending = @ + 1]
    /\ call' = invoked(call, enterLoop(readyRun, client.retryConfig), call.model, "primary")
    /\ UNCHANGED <<env, client, bucketVars, classifyVars, retryVars, orchVars>>

configOf(c) == IF c.pc = "primary" THEN client.retryConfig ELSE fallbackConfig

currentConfig == configOf(call)

\* ai.models.generateContent settled with outcome o
RemoteSettles(o) ==
    /\ call.pc \in {"primary", "fallback"}
    /\ call.run.pc = "calling"
    /\ LET next == afterRunOf(attemptSettled(call, o), metrics,
                              onSettled(call.run, currentConfig, executeWithTimeout(o), 0))
       IN  call' = healthCheck(next.call) /\ metrics' = next.metrics
    /\ UNCHANGED <<env, client, bucketVars, classifyVars, retryVars, orchVars>>

\* The backoff sleep of the current retry run is over
BackoffDone ==
    /\ call.pc \in {"primary", "fallback"}
    /\ call.run.pc = "sleeping"
    /\ LET next == afterRun(onSleepDone(call.run, currentConfig))
       IN  call' = healthCheck(next.call) /\ metrics' = next.metrics
    /\ UNCHANGED <<env, client, bucketVars, classifyVars, retryVars, orchVars>>

RemoteOutcomes ==
    LET id == Len(call.remote)
    IN  IF id = 0 THEN {}
        ELSE {Resolved(Response("t", call.remote[id].model, id))}
               \cup {Threw(v) : v \in RemoteThrows(id)}

NoMetrics == [requestsTotal |-> 0, requestsPending |-> 0, errorsTotal |-> 0, lastError |-> NoError,
              lastErrorTimeSet |-> FALSE, lastErrorAge |-> 0]

\* getMetrics: healthy is false for 60 seconds after an error
HealthWindow == 60000

\* getMetrics() (lines 220..230) after its refill() left t units in the bucket
getMetricsMutSuccessHeals(m, t) ==
    [healthy |-> ~m.lastErrorTimeSet \/ m.lastErrorAge > HealthWindow
                   \/ m.requestsTotal - m.requestsPending > m.errorsTotal,
     requestsTotal |-> m.requestsTotal, requestsPending |-> m.requestsPending,
     lastError |-> m.lastError.message, rateLimitTokens |-> t]

getMetrics(m, t) ==
    [healthy |-> ~m.lastErrorTimeSet \/ m.lastErrorAge > HealthWindow,
     requestsTotal |-> m.requestsTotal, requestsPending |-> m.requestsPending,
     lastError |-> m.lastError.message, rateLimitTokens |-> t]

\* getMetrics() is called: getAvailableTokens() refills the bucket
GetMetrics ==
    LET r == refill(tokens, elapsed)
    IN  /\ tokens' = r.tokens
        /\ elapsed' = r.elapsed
        /\ supplied' = Supply(r.tokens - tokens)
        /\ observed' = [op |-> "getMetrics", value |-> getMetrics(metrics, r.tokens).rateLimitTokens,
                        waited |-> FALSE]
        /\ UNCHANGED <<capacity, requestsPerMinute, callers, left, granted, nonBucketVars>>

\* d milliseconds pass: Date.now() and the timers' clock advance. The age of
\* the last error saturates past HealthWindow, the time an attempt has been
\* awaited past its timeout.
TimePasses(d) ==
    /\ elapsed' = Min(ElapsedCap, elapsed + d)
    /\ callers' = [c \in Callers |-> [callers[c] EXCEPT !.timer = Max(0, @ - d)]]
    /\ observed' = NotObserved
    /\ metrics' = [metrics EXCEPT !.lastErrorAge =
                      IF metrics.lastErrorTimeSet THEN Min(HealthWindow + 1, @ + d) ELSE @]
    /\ call' = [call EXCEPT !.attempt.waited =
                   IF call.pc \in {"primary", "fallback"} /\ call.run.pc = "calling"
                     THEN Min(call.timeout + 1, @ + d) ELSE @]
    /\ UNCHANGED <<capacity, requestsPerMinute, tokens, left, supplied, granted, env, client,
                   classifyVars, retryVars, orchVars>>

ClientParked ==
    /\ env = EnvOf(0)
    /\ client = GeminiClient(CHOOSE cfg \in ClientConfigs({""}, {0}) : TRUE, env)
    /\ metrics = NoMetrics
    /\ call = idleCall

\* ================================================== generateContentBatch
\* The most remote calls one generateContent call makes
CallsPerRequest == (MaxRetriesBound + 1) + (FallbackMaxRetries + 1)

\* What identifies the k-th remote call of item i, and the item of such a call
RemoteId(i, k) == (i - 1) * CallsPerRequest + k

ItemOf(id) == ((id - 1) \div CallsPerRequest) + 1

\* What the remote call RemoteId(i, k) of item c may do: answer, time out
\* (retryable), or fail with HTTP 400 (not retryable)
ItemOutcomes(c, i) ==
    LET k == Len(c.remote)
    IN  IF k = 0 THEN {}
        ELSE {Resolved(Response("t", c.remote[k].model, RemoteId(i, k)))}
               \cup {Threw(v) : v \in {e \in RemoteThrows(RemoteId(i, k)) :
                                          e.code # "" \/ e.status = 400}}

\* A slot of Promise.allSettled's result array
PendingSlot == [status |-> "pending", value |-> [data |-> NoData, index |-> -1], reason |-> NoError]

idleBatch == [pc |-> "idle", items |-> <<>>, slots |-> <<>>, out |-> <<>>]

\* acquire() called n times in one synchronous run (paramsArray.map, lines 113..115,
\* each generateContent running up to its "await this.rateLimiter.acquire()"),
\* after the first refill() left t units: the wait of each call (0: the token
\* was debited) and the units left.
RECURSIVE acquireEach(_, _)
acquireEach(t, n) ==
    IF n = 0 THEN [tokens |-> t, waits |-> <<>>]
    ELSE LET w == waitTime(t, 1)
             rest == acquireEach(IF w = 0 THEN t - Units(1) ELSE t, n - 1)
         IN  [tokens |-> rest.tokens, waits |-> <<w>> \o rest.waits]

\* Promise.allSettled records the settlement of its i-th promise in slot i;
\* the promise is generateContent(params).then(data => ({ data, index })).
settleSlotMutCompletionOrder(slots, i, c) ==
    LET j == CHOOSE k \in 1..Len(slots) :
                 slots[k].status = "pending" /\ \A l \in 1..(k - 1) : slots[l].status # "pending"
    IN  [slots EXCEPT ![j] =
           IF c.pc = "resolved"
             THEN [status |-> "fulfilled", value |-> [data |-> c.data, index |-> i - 1],
                   reason |-> NoError]
             ELSE [status |-> "rejected", value |-> [data |-> NoData, index |-> -1],
                   reason |-> c.error]]

settleSlot(slots, i, c) ==
    [slots EXCEPT ![i] =
       IF c.pc = "resolved"
         THEN [status |-> "fulfilled", value |-> [data |-> c.data, index |-> i - 1],
               reason |-> NoError]
         ELSE [status |-> "rejected", value |-> [data |-> NoData, index |-> -1],
               reason |-> c.error]]

\* Lines 118..126: the outcome reported for a settled slot
toOutcome(slot) ==
    IF slot.status = "fulfilled"
      THEN [success |-> TRUE, data |-> slot.value.data, error |-> NoError]
      ELSE [success |-> FALSE, data |-> NoData, error |-> asError(slot.reason)]

\* The batch once its item i became c
withItem(b, i, c) ==
    [b EXCEPT !.items[i] = c,
              !.slots = IF c.pc \in {"resolved", "rejected"} THEN settleSlot(@, i, c) ELSE @]

\* generateContentBatch(paramsArray, timeout) is called: every generateContent
\* runs up to its first await, acquire's first iteration included. models[i]
\* is paramsArray[i].model ("" for none), timeout -1 stands for "not given".
GenerateContentBatch(models, timeout) ==
    /\ batch.pc = "idle"
    /\ LET n == Len(models)
           r == refill(tokens, elapsed)
           a == acquireEach(r.tokens, n)
       IN  /\ tokens' = a.tokens
           /\ elapsed' = r.elapsed
           /\ supplied' = Supply(r.tokens - tokens)
           /\ granted' = granted + (r.tokens - a.tokens)
           /\ observed' = NotObserved
           /\ callers' = [c \in Callers |->
                 IF c <= n /\ a.waits[c] > 0
                   THEN [pc |-> "sleeping", need |-> 1, timer |-> a.waits[c]]
                   ELSE callers[c]]
           /\ batch' = [pc |-> "running",
                        items |-> [i \in 1..n |-> [idleCall EXCEPT
                            !.pc = IF a.waits[i] = 0 THEN "acquired" ELSE "acquiring",
                            !.model = IF models[i] # "" THEN models[i] ELSE client.defaultModel,
                            !.timeout = IF timeout # -1 THEN timeout ELSE client.defaultTimeout]],
                        slots |-> [i \in 1..n |-> PendingSlot],
                        out |-> <<>>]
    /\ UNCHANGED <<capacity, requestsPerMinute, left, env, client, metrics, call, research,
                   classifyVars, retryVars>>

\* The timer of acquire's sleep fired for item i
ItemWakes(i) ==
    /\ batch.pc = "running"
    /\ i \in 1..Len(batch.items)
    /\ batch.items[i].pc = "acquiring"
    /\ callers[i].timer = 0
    /\ acquireLoop(i, 1, TRUE)
    /\ batch' = [batch EXCEPT !.items[i].pc =
                    IF observed'.op = "acquire" THEN "acquired" ELSE "acquiring"]
    /\ UNCHANGED <<left, env, client, metrics, call, research, classifyVars, retryVars>>

\* acquire() resolved for item i: lines 72..79 of its generateContent
ItemAfterAcquire(i) ==
    /\ batch.pc = "running"
    /\ i \in 1..Len(batch.items)
    /\ batch.items[i].pc = "acquired"
    /\ metrics' = [metrics EXCEPT !.requestsTotal = @ + 1, !.requestsPending = @ + 1]
    /\ batch' = withItem(batch, i, invoked(batch.items[i],
                   enterLoop(readyRun, client.retryConfig), batch.items[i].model, "primary"))
    /\ UNCHANGED <<env, client, call, research, bucketVars, classifyVars, retryVars>>

\* The remote call of item i settled with outcome o
ItemRemoteSettles(i, o) ==
    /\ batch.pc = "running"
    /\ i \in 1..Len(batch.items)
    /\ batch.items[i].pc \in {"primary", "fallback"}
    /\ batch.items[i].run.pc = "calling"
    /\ LET c == batch.items[i]
           next == afterRunOf(attemptSettled(c, o), metrics,
                              onSettled(c.run, configOf(c), executeWithTimeout(o), 0))
       IN  batch' = withItem(batch, i, next.call) /\ metrics' = next.metrics
    /\ UNCHANGED <<env, client, call, research, bucketVars, classifyVars, retryVars>>

\* The backoff sleep of item i is over
ItemBackoffDone(i) ==
    /\ batch.pc = "running"
    /\ i \in 1..Len(batch.items)
    /\ batch.items[i].pc \in {"primary", "fallback"}
    /\ batch.items[i].run.pc = "sleeping"
    /\ LET c == batch.items[i]
           next == afterRunOf(c, metrics, onSleepDone(c.run, configOf(c)))
       IN  batch' = withItem(batch, i, next.call) /\ metrics' = next.metrics
    /\ UNCHANGED <<env, client, call, research, bucketVars, classifyVars, retryVars>>

\* Promise.allSettled resolved: lines 118..126
BatchReturns ==
    /\ batch.pc = "running"
    /\ \A i \in 1..Len(batch.slots) : batch.slots[i].status # "pending"
    /\ batch' = [batch EXCEPT !.pc = "returned",
                              !.out = [i \in 1..Len(batch.slots) |-> toOutcome(batch.slots[i])]]
    /\ UNCHANGED <<env, client, metrics, call, research, bucketVars, classifyVars, retryVars>>

\* ========================================================== researchCall
\* A text is a sequence of lexemes: JSON punctuation, the literals null, true
\* and 1, string literals (StrLits, their quotes implied), whitespace " " and
\* the word x that no JSON text holds.
QueryNames == <<"q1", "q2", "q3", "q4", "q5", "q6", "q7", "q8">>

StrLits == {"queries", "notes"} \cup {QueryNames[i] : i \in 1..Len(QueryNames)}

\* JSON values. A string is kept as the lexemes it is made of.
Undefined == [t |-> "undefined"]

JNull == [t |-> "null"]

JBool == [t |-> "bool"]

JNum == [t |-> "num"]

JStr(s) == [t |-> "str", s |-> s]

JArr(items) == [t |-> "arr", items |-> items]

\* An object, of which the model keeps the property "queries"
JObj(queries) == [t |-> "obj", queries |-> queries]

RECURSIVE skipWs(_, _)
skipWs(toks, p) == IF p <= Len(toks) /\ toks[p] = " " THEN skipWs(toks, p + 1) ELSE p

\* The lexeme at p, or "" past the end
at(toks, p) == IF p >= 1 /\ p <= Len(toks) THEN toks[p] ELSE ""

SyntaxError == [ok |-> FALSE, v |-> Undefined, p |-> 0]

\* JSON.parse, by recursive descent: the value that starts at p and where it ends
RECURSIVE parseValue(_, _), parseElements(_, _, _), parseMembers(_, _, _)
parseValue(toks, p0) ==
    LET p == skipWs(toks, p0)
        l == at(toks, p)
    IN  IF l = "null" THEN [ok |-> TRUE, v |-> JNull, p |-> p + 1]
        ELSE IF l = "true" THEN [ok |-> TRUE, v |-> JBool, p |-> p + 1]
        ELSE IF l = "1" THEN [ok |-> TRUE, v |-> JNum, p |-> p + 1]
        ELSE IF l \in StrLits THEN [ok |-> TRUE, v |-> JStr(<<l>>), p |-> p + 1]
        ELSE IF l = "[" THEN
            IF at(toks, skipWs(toks, p + 1)) = "]"
              THEN [ok |-> TRUE, v |-> JArr(<<>>), p |-> skipWs(toks, p + 1) + 1]
              ELSE parseElements(toks, p + 1, <<>>)
        ELSE IF l = "{" THEN
            IF at(toks, skipWs(toks, p + 1)) = "}"
              THEN [ok |-> TRUE, v |-> JObj(Undefined), p |-> skipWs(toks, p + 1) + 1]
              ELSE parseMembers(toks, p + 1, Undefined)
        ELSE SyntaxError

parseElements(toks, p, acc) ==
    LET e == parseValue(toks, p)
        q == skipWs(toks, e.p)
    IN  IF ~e.ok THEN SyntaxError
        ELSE IF at(toks, q) = "," THEN parseElements(toks, q + 1, Append(acc, e.v))
        ELSE IF at(toks, q) = "]" THEN [ok |-> TRUE, v |-> JArr(Append(acc, e.v)), p |-> q + 1]
        ELSE SyntaxError

parseMembers(toks, p, queries) ==
    LET k == skipWs(toks, p)
        c == skipWs(toks, k + 1)
        e == parseValue(toks, c + 1)
        q == skipWs(toks, e.p)
        now == IF at(toks, k) = "queries" THEN e.v ELSE queries
    IN  IF at(toks, k) \notin StrLits \/ at(toks, c) # ":" \/ ~e.ok THEN SyntaxError
        ELSE IF at(toks, q) = "," THEN parseMembers(toks, q + 1, now)
        ELSE IF at(toks, q) = "}" THEN [ok |-> TRUE, v |-> JObj(now), p |-> q + 1]
        ELSE SyntaxError

\* JSON.parse(text): throws unless one value spans the whole text
JSONparse(toks) ==
    LET r == parseValue(toks, 1)
    IN  IF r.ok /\ skipWs(toks, r.p) = Len(toks) + 1 THEN r ELSE SyntaxError

\* /\[\s*"(.*?)"\s*\]/s tried at the "[" at p: the first lexeme of the group
\* (a string literal right after the bracket) and the last (the first string
\* literal from there on that a "]" follows); <<0, 0>> when it does not match.
matchAt(toks, p) ==
    LET q == skipWs(toks, p + 1)
        ends == {e \in q..Len(toks) : toks[e] \in StrLits /\ at(toks, skipWs(toks, e + 1)) = "]"}
    IN  IF at(toks, p) = "[" /\ at(toks, q) \in StrLits /\ ends # {}
          THEN <<q, CHOOSE e \in ends : \A f \in ends : e <= f>>
          ELSE <<0, 0>>

\* String.prototype.match: the leftmost match
match(toks) ==
    LET starts == {p \in 1..Len(toks) : matchAt(toks, p) # <<0, 0>>}
    IN  IF starts = {} THEN <<0, 0>>
        ELSE matchAt(toks, CHOOSE p \in starts : \A r \in starts : p <= r)

\* match[1].split(/"\s*,\s*"/g) over the lexemes q..e of the group: the pieces
\* between the places where a string literal ends, a comma follows and a
\* string literal starts.
RECURSIVE split(_, _, _, _)
split(toks, q, i, e) ==
    LET c == skipWs(toks, i + 1)
        n == skipWs(toks, c + 1)
    IN  IF i >= e THEN <<JStr(SubSeq(toks, q, e))>>
        ELSE IF toks[i] \in StrLits /\ at(toks, c) = "," /\ n <= e /\ at(toks, n) \in StrLits
          THEN <<JStr(SubSeq(toks, q, i))>> \o split(toks, n, n, e)
        ELSE split(toks, q, i + 1, e)

\* The catch block of the plan parsing (lines 233..238): the array extracted
naiveExtraction(toks) ==
    LET m == match(toks)
    IN  IF m = <<0, 0>> THEN <<>> ELSE split(toks, m[1], m[1], m[2])

\* What lines 230..241 make of the planning call's text: the plan's queries, or
\* the TypeError thrown by line 239 or 240. JSON.parse(planRes.text || "{}")
\* may return any JSON value: reading .queries of null throws, and so does
\* assigning .queries to a boolean, a number or a string (module code is
\* strict); an array takes the property like an object.
TypeError == Value("Error", "absent", <<"TypeError">>, -1, "", -3)

planQueries(text, question) ==
    LET parsed == JSONparse(IF text = <<>> THEN <<"{", "}">> ELSE text)
        extracted == naiveExtraction(text)
        queries == IF ~parsed.ok THEN JArr(extracted)
                   ELSE IF parsed.v.t = "obj" THEN parsed.v.queries
                   ELSE Undefined
    IN  IF parsed.ok /\ parsed.v.t \in {"null", "bool", "num", "str"}
          THEN [threw |-> TRUE, queries |-> <<>>]
        ELSE IF queries.t = "arr" /\ queries.items # <<>>
          THEN [threw |-> FALSE, queries |-> queries.items]
          ELSE [threw |-> FALSE, queries |-> <<question>>]

\* maxSteps = 3 when the caller gives none (-1 in the model)
DefaultMaxSteps == 3

\* max_steps of the web_search tool: z.number().int().min(1).max(6)
MaxSubQueries == 6

\* plan.queries.slice(0, Math.max(1, maxSteps))
sliceMutNoFloor(queries, maxSteps) ==
    SubSeq(queries, 1, Min(Len(queries), Max(0, maxSteps)))

slice(queries, maxSteps) ==
    SubSeq(queries, 1, Min(Len(queries), Max(1, maxSteps)))

\* ---- what a generateContent call of researchCall resolves or rejects with
\* The text of call i: a text that is not empty, or the empty string
TextOf(i) == [k |-> "text", of |-> i, e |-> NoError]

Empty(i) == [k |-> "empty", of |-> i, e |-> NoError]

\* `[Error: ${result.reason}]`
Placeholder(reason) == [k |-> "placeholder", of |-> 0, e |-> reason]

\* A grounding source; the title tells which call cited it
Source(uri, title) == [uri |-> uri, title |-> title]

\* The error generateContent rejects with for call i
Failure(i) == TimeoutError(<<"x">>, i)

\* The calls of a researchCall: the sub-queries 1, 2, ..., the plan, the synthesis
PlanCall == 0

SynthesisCall == -1

IdleSlot(q) == [status |-> "idle", q |-> q, text |-> Empty(0), sources |-> <<>>, reason |-> NoError]

Fulfilled(text, sources) == [ok |-> TRUE, text |-> text, sources |-> sources, reason |-> NoError]

RejectedWith(reason) == [ok |-> FALSE, text |-> Empty(0), sources |-> <<>>, reason |-> reason]

\* How the generateContent call of sub-query i may settle
SubOutcomes(i) ==
    { Fulfilled(TextOf(i), <<>>),
      Fulfilled(TextOf(i), <<Source("u1", i)>>),
      Fulfilled(Empty(i), <<Source("u2", i), Source("u1", i), Source("u2", i)>>),
      RejectedWith(Failure(i)) }

SynthesisOutcomes ==
    { Fulfilled(TextOf(SynthesisCall), <<>>), Fulfilled(Empty(SynthesisCall), <<>>),
      RejectedWith(Failure(SynthesisCall)) }

NoResearchResult == [text |-> <<>>, sources |-> <<>>, queries |-> <<>>]

idleResearch ==
    [pc |-> "idle", question |-> JStr(<<>>), maxSteps |-> 0, concurrency |-> "",
     planText |-> <<>>, plan |-> <<>>, queriesToRun |-> <<>>, slots |-> <<>>,
     perQueryNotes |-> <<>>, synthesisText |-> Empty(0), result |-> NoResearchResult,
     error |-> NoError,
     calls |-> [plan |-> 0, sub |-> 0, synthesis |-> 0]]

OrchParked == batch = idleBatch /\ research = idleResearch

\* The note pushed for a settled slot: lines 268..273 (parallel), 287 (sequential)
noteOfMutDropFailed(slot) ==
    IF slot.status = "fulfilled"
      THEN <<[q |-> slot.q, text |-> slot.text, sources |-> slot.sources]>>
      ELSE <<>>

noteOf(slot) ==
    IF slot.status = "fulfilled"
      THEN <<[q |-> slot.q, text |-> slot.text, sources |-> slot.sources]>>
      ELSE <<[q |-> slot.q, text |-> Placeholder(slot.reason), sources |-> <<>>]>>

RECURSIVE notesOf(_)
notesOf(slots) == IF slots = <<>> THEN <<>> ELSE noteOf(Head(slots)) \o notesOf(Tail(slots))

\* perQueryNotes.flatMap((n) => n.sources)
RECURSIVE flatSources(_)
flatSources(notes) ==
    IF notes = <<>> THEN <<>> ELSE Head(notes).sources \o flatSources(Tail(notes))

\* Lines 306..308: the Map keeps the first source of each uri, in insertion order
dedupMutKeepAll(sources, seen) == sources

RECURSIVE dedup(_, _)
dedup(sources, seen) ==
    IF sources = <<>> THEN <<>>
    ELSE LET s == Head(sources)
         IN  IF s.uri # "" /\ s.uri \notin seen
               THEN <<s>> \o dedup(Tail(sources), seen \cup {s.uri})
               ELSE dedup(Tail(sources), seen)

\* Lines 310..314, the synthesis call having resolved with text
resultOfMutNoFallback(r, text) ==
    [text |-> <<text>>,
     sources |-> dedup(flatSources(r.perQueryNotes), {}),
     queries |-> r.queriesToRun]

resultOf(r, text) ==
    [text |-> IF text.k # "empty" THEN <<text>>
              ELSE [i \in 1..Len(r.perQueryNotes) |-> r.perQueryNotes[i].text],
     sources |-> dedup(flatSources(r.perQueryNotes), {}),
     queries |-> r.queriesToRun]

\* The sub-query calls in flight
pending(r) == {i \in 1..Len(r.slots) : r.slots[i].status = "pending"}

\* Promise.allSettled(...) resolves: every sub-query call has settled
allSettledMutAny(r) == \E i \in 1..Len(r.slots) : r.slots[i].status \in {"fulfilled", "rejected"}

allSettled(r) == pending(r) = {}

\* Line 292: the synthesis call is made
synthesize(r) ==
    [r EXCEPT !.pc = "synthesizing", !.calls.synthesis = @ + 1]

\* researchCall rejects with error
throws(r, error) == [r EXCEPT !.pc = "rejected", !.error = error]

\* The execute phase starts (lines 244..289, up to the first await): in
\* parallel mode queriesToRun.map calls groundedCall for every query, in
\* sequential mode the loop calls it for the first.
startsAll(r) ==
    [r EXCEPT !.pc = "executing",
              !.slots = [i \in 1..Len(r.queriesToRun) |->
                  [IdleSlot(r.queriesToRun[i]) EXCEPT !.status = "pending"]],
              !.calls.sub = @ + Len(r.queriesToRun)]

startsFirstMutAll(r) ==
    [r EXCEPT !.pc = "executing",
              !.slots = [i \in 1..Len(r.queriesToRun) |->
                  [IdleSlot(r.queriesToRun[i]) EXCEPT !.status = "pending"]],
              !.calls.sub = @ + Len(r.queriesToRun)]

startsFirst(r) ==
    [r EXCEPT !.pc = "executing",
              !.slots = [i \in 1..Len(r.queriesToRun) |->
                  [IdleSlot(r.queriesToRun[i]) EXCEPT !.status = IF i = 1 THEN "pending" ELSE "idle"]],
              !.calls.sub = @ + 1]

\* researchCall({ question, maxSteps, concurrency }) is called: the planning
\* call is made (line 210). maxSteps -1 and concurrency "" stand for "not given".
ResearchCall(question, maxSteps, concurrency) ==
    /\ research.pc = "idle"
    /\ research' = [idleResearch EXCEPT
                      !.pc = "planning",
                      !.question = question,
                      !.maxSteps = IF maxSteps = -1 THEN DefaultMaxSteps ELSE maxSteps,
                      !.concurrency = IF concurrency = "" THEN "parallel" ELSE concurrency,
                      !.calls.plan = 1]
    /\ UNCHANGED <<bucketVars, classifyVars, retryVars, clientVars, batch>>

\* The planning call rejected: researchCall rejects with its error
PlanFails ==
    /\ research.pc = "planning"
    /\ research' = throws(research, Failure(PlanCall))
    /\ UNCHANGED <<bucketVars, classifyVars, retryVars, clientVars, batch>>

\* The planning call resolved with text: lines 229..263 or 229..286
PlanSettles(text) ==
    /\ research.pc = "planning"
    /\ LET p == planQueries(text, research.question)
           r == [research EXCEPT !.planText = text, !.plan = p.queries,
                                 !.queriesToRun = slice(p.queries, research.maxSteps)]
       IN  research' = IF p.threw THEN throws([research EXCEPT !.planText = text], TypeError)
                       ELSE IF research.concurrency = "parallel" THEN startsAll(r)
                       ELSE startsFirst(r)
    /\ UNCHANGED <<bucketVars, classifyVars, retryVars, clientVars, batch>>

\* The slots of r once the call of sub-query i settled with o
settled(r, i, o) ==
    [r EXCEPT !.slots[i] = [@ EXCEPT !.status = IF o.ok THEN "fulfilled" ELSE "rejected",
                                     !.text = o.text, !.sources = o.sources,
                                     !.reason = o.reason]]

\* Parallel mode: the call of sub-query i settled. Promise.allSettled resolves
\* once all have; then lines 266..304 run.
ParallelSubSettles(i, o) ==
    /\ research.pc = "executing"
    /\ research.concurrency = "parallel"
    /\ i \in pending(research)
    /\ LET r == settled(research, i, o)
       IN  research' = IF allSettled(r)
                         THEN synthesize([r EXCEPT !.perQueryNotes = notesOf(r.slots)])
                         ELSE r
    /\ UNCHANGED <<bucketVars, classifyVars, retryVars, clientVars, batch>>

\* Sequential mode: the awaited call of sub-query i settled (lines 277..304).
\* A rejection leaves the loop and researchCall.
SequentialSubSettles(i, o) ==
    /\ research.pc = "executing"
    /\ research.concurrency # "parallel"
    /\ i \in pending(research)
    /\ LET r == settled(research, i, o)
           pushed == [r EXCEPT !.perQueryNotes = @ \o noteOf(r.slots[i])]
       IN  research' = IF ~o.ok THEN throws(r, o.reason)
                       ELSE IF i = Len(r.slots) THEN synthesize(pushed)
                       ELSE [pushed EXCEPT !.slots[i + 1].status = "pending",
                                           !.calls.sub = @ + 1]
    /\ UNCHANGED <<bucketVars, classifyVars, retryVars, clientVars, batch>>

\* The synthesis call settled: lines 306..314, or researchCall rejects.
\* SynthesisSettlesMutFallsBack returns the concatenated notes when it failed.
SynthesisSettlesMutFallsBack(o) ==
    /\ research.pc = "synthesizing"
    /\ research' = [research EXCEPT !.pc = "returned",
                                    !.synthesisText = IF o.ok THEN o.text ELSE Empty(SynthesisCall),
                                    !.result = resultOf(research, IF o.ok THEN o.text
                                                                  ELSE Empty(SynthesisCall))]
    /\ UNCHANGED <<bucketVars, classifyVars, retryVars, clientVars, batch>>

SynthesisSettles(o) ==
    /\ research.pc = "synthesizing"
    /\ research' = IF o.ok THEN [research EXCEPT !.pc = "returned",
                                                   !.synthesisText = o.text,
                                                   !.result = resultOf(research, o.text)]
                   ELSE throws(research, o.reason)
    /\ UNCHANGED <<bucketVars, classifyVars, retryVars, clientVars, batch>>

\* The bucket as its constructor leaves it
BucketStart ==
    /\ tokens = Units(capacity)
    /\ elapsed = 0
    /\ callers = [c \in Callers |-> [pc |-> "idle", need |-> 0, timer |-> 0]]
    /\ left = MaxAcquires
    /\ observed = NotObserved
    /\ supplied = tokens
    /\ granted = 0

BucketParked == capacity = 1 /\ requestsPerMinute = MsPerMinute /\ BucketStart

BucketInit ==
    /\ capacity \in 1..MaxBurst
    /\ requestsPerMinute \in RpmChoices
    /\ BucketStart
    /\ ClassifyParked
    /\ RetryParked
    /\ ClientParked
    /\ OrchParked

BucketNext ==
    \/ \E c \in Callers : \E n \in 1..capacity : Acquire(c, n)
    \/ \E c \in Callers : TimerFires(c)
    \/ GetAvailableTokens
    \/ \E n \in 1..capacity : CalculateWaitTime(n)
    \/ Reset
    \/ Tick
    \/ \E e \in (0 - MaxBack)..ElapsedCap : ClockJump(e)

Spec == BucketInit /\ [][BucketNext]_vars

\* The bucket with a clock that keeps advancing (no wall-clock jump) and an event
\* loop that runs every due timer callback.
LiveNext ==
    \/ \E c \in Callers : \E n \in 1..capacity : Acquire(c, n)
    \/ \E c \in Callers : TimerFires(c)
    \/ GetAvailableTokens
    \/ \E n \in 1..capacity : CalculateWaitTime(n)
    \/ Reset
    \/ Tick

LiveSpec ==
    /\ BucketInit
    /\ [][LiveNext]_vars
    /\ WF_vars(Tick)
    /\ \A c \in Callers : WF_vars(TimerFires(c))

ClientInit ==
    /\ \E cfg \in ClientConfigs({""} \cup Models, 0..MaxRetriesBound) :
          env = EnvOf(cfg.retry.maxRetries) /\ client = GeminiClient(cfg, env)
    /\ metrics = NoMetrics
    /\ call = idleCall
    /\ capacity = 1
    /\ requestsPerMinute = MsPerMinute
    /\ BucketStart
    /\ ClassifyParked
    /\ RetryParked
    /\ OrchParked

ClientNext ==
    \/ \E m \in {""} \cup Models : \E t \in {-1, 5} : GenerateContent(m, t)
    \/ AcquireWakes
    \/ AfterAcquire
    \/ \E o \in RemoteOutcomes : RemoteSettles(o)
    \/ BackoffDone
    \/ Tick

ClientSpec == ClientInit /\ [][ClientNext]_vars

ClassifyInit ==
    /\ err \in ThrownValues(MaxMsgLen)
    /\ verdict = NoVerdict
    /\ RetryParked
    /\ BucketParked
    /\ ClientParked
    /\ OrchParked

ClassifySpec == ClassifyInit /\ [][Classify]_vars

RetryNext ==
    \/ RetryStart
    \/ \E d \in FnData(run.invoked) : FnResolves(d)
    \/ \E v \in FnThrows(run.invoked) : \E rnd \in 0..(RandSteps - 1) : FnRejects(v, rnd)
    \/ SleepDone
    \/ OrThrowSettles

RetryInit ==
    /\ config \in Configs
    /\ run = readyRun
    /\ outer = NotSettled
    /\ ClassifyParked
    /\ BucketParked
    /\ ClientParked
    /\ OrchParked

RetrySpec == RetryInit /\ [][RetryNext]_vars

\* The paramsArray of the model: one to NumCallers requests
BatchParams == UNION {[1..n -> Models] : n \in 1..NumCallers}

BatchInit ==
    /\ \E cfg \in ClientConfigs({"", "B"}, {0, 1}) :
          env = EnvOf(cfg.retry.maxRetries) /\ client = GeminiClient(cfg, env)
    /\ metrics = NoMetrics
    /\ call = idleCall
    /\ batch = idleBatch
    /\ research = idleResearch
    /\ capacity = 1
    /\ requestsPerMinute = MsPerMinute
    /\ BucketStart
    /\ ClassifyParked
    /\ RetryParked

BatchNext ==
    \/ \E models \in BatchParams : GenerateContentBatch(models, -1)
    \/ \E i \in Callers : ItemWakes(i)
    \/ \E i \in Callers : ItemAfterAcquire(i)
    \/ \E i \in Callers : i <= Len(batch.items) /\ \E o \in ItemOutcomes(batch.items[i], i) : ItemRemoteSettles(i, o)
    \/ \E i \in Callers : ItemBackoffDone(i)
    \/ BatchReturns
    \/ Tick

BatchSpec == BatchInit /\ [][BatchNext]_vars

\* The texts the planning call returns in the model, with plans of up to n queries
RECURSIVE commaList(_)
commaList(k) ==
    IF k = 0 THEN <<>>
    ELSE IF k = 1 THEN <<QueryNames[1]>>
    ELSE commaList(k - 1) \o <<",", QueryNames[k]>>

arrayText(k) == <<"[">> \o commaList(k) \o <<"]">>

objectText(k) == <<"{", "queries", ":">> \o arrayText(k) \o <<"}">>

PlanTexts(n) ==
    {objectText(k) : k \in 0..n}
    \cup {<<"{", "queries", ":">> \o arrayText(n) \o <<",", "notes", ":", "q1", "}">>}
    \cup {arrayText(k) : k \in 0..1}
    \cup {<<"x", " ">> \o objectText(k) : k \in 0..n}
    \cup {<<"{", "queries", ":">> \o arrayText(k) : k \in 1..n}
    \cup { <<>>, <<"null">>, <<" ", "null", " ">>, <<"1">>, <<"true">>, <<"q1">>, <<"x">>,
           <<"{", "}">>, <<"{", "notes", ":", "q1", "}">>,
           <<"{", "queries", ":", "null", "}">>, <<"{", "queries", ":", "q1", "}">>,
           <<"{", "queries", ":", "[", "1", "]", "}">>,
           <<"[", "1", "]", "x">>, <<"[", " ", "q1", " ", "]", "x">>,
           <<"[", "q1", "q2", "]">>,
           <<"x", "[", "q1", "x", "q2", " ", ",", " ", "q3", "]">> }

MaxStepsChoices(n) == {-1, -2} \cup 0..(n + 1)

ResearchInit ==
    /\ research = idleResearch
    /\ batch = idleBatch
    /\ ClassifyParked
    /\ RetryParked
    /\ BucketParked
    /\ ClientParked

ResearchNext ==
    \/ \E m \in MaxStepsChoices(MaxPlan) : \E c \in {"", "parallel", "sequential"} :
          ResearchCall(JStr(<<"Q">>), m, c)
    \/ PlanFails
    \/ \E text \in PlanTexts(MaxPlan) : PlanSettles(text)
    \/ \E i \in pending(research) : \E o \in SubOutcomes(i) : ParallelSubSettles(i, o)
    \/ \E i \in pending(research) : \E o \in SubOutcomes(i) : SequentialSubSettles(i, o)
    \/ \E o \in SynthesisOutcomes : SynthesisSettles(o)

ResearchSpec == ResearchInit /\ [][ResearchNext]_vars

\* researchCall with long plans: the planning call returns an object of
\* MaxLongPlan - 1 or MaxLongPlan queries, every later call resolves.
LongPlanInit ==
    /\ research = idleResearch
    /\ batch = idleBatch
    /\ ClassifyParked
    /\ RetryParked
    /\ BucketParked
    /\ ClientParked

LongPlanNext ==
    \/ \E m \in {-1, 1, MaxLongPlan - 1, MaxLongPlan, MaxLongPlan + 1} :
          \E c \in {"parallel", "sequential"} : ResearchCall(JStr(<<"Q">>), m, c)
    \/ \E k \in (MaxLongPlan - 1)..MaxLongPlan : PlanSettles(objectText(k))
    \/ \E i \in pending(research) : ParallelSubSettles(i, Fulfilled(TextOf(i), <<>>))
    \/ \E i \in pending(research) : SequentialSubSettles(i, Fulfilled(TextOf(i), <<>>))
    \/ SynthesisSettles(Fulfilled(TextOf(SynthesisCall), <<>>))

LongPlanSpec == LongPlanInit /\ [][LongPlanNext]_vars

\* -------------------------------------------------------------------------
\* C1: in every reachable state, whatever the interleaving of acquire calls,
\* observations, resets, clock steps and wall-clock jumps (backward included),
\* the stored token count is at least 0 and at most the capacity.
TokensWithinCapacity == 0 <= tokens /\ tokens <= Units(capacity)

\* The wall clock is behind lastRefill, the bucket is empty after debits, and a
\* caller sleeps in acquire's loop.
TokensWithinCapacityWitness ==
    /\ elapsed < 0
    /\ tokens = 0
    /\ granted >= Units(capacity)
    /\ \E c \in Callers : callers[c].pc = "sleeping"

\* C2: acquire never over-admits. A step in which an acquire(n) returns is a
\* step whose refill leaves at least n tokens, and that step debits exactly n;
\* every other step debits nothing; so the tokens debited so far never exceed
\* the tokens supplied so far (the initial fill, the refills and the resets).
AcquireStepDebits ==
    LET r == refill(tokens, elapsed)
    IN  IF observed'.op = "acquire"
          THEN /\ r.tokens >= Units(observed'.value)
               /\ tokens' = r.tokens - Units(observed'.value)
               /\ granted' = granted + Units(observed'.value)
          ELSE /\ tokens' >= tokens
               /\ granted' = granted

NeverOverAdmits == [][AcquireStepDebits]_vars /\ [](granted <= supplied)

\* Two callers waited for the same refill; one has returned with its token and
\* the other, its timer due, finds less than it needs.
NeverOverAdmitsWitness ==
    /\ observed.op = "acquire"
    /\ observed.waited
    /\ \E c \in Callers :
          /\ callers[c].pc = "sleeping"
          /\ callers[c].timer = 0
          /\ tokens < Units(callers[c].need)

\* C3: a caller is only delayed, never rejected: with a clock that keeps
\* advancing, every acquire(n), 1 <= n <= capacity, that went to sleep
\* eventually returns, whatever the other callers do.
EveryAcquireReturns ==
    \A c \in Callers : (callers[c].pc = "sleeping") ~> (callers[c].pc = "idle")

\* An acquire returned after sleeping while another caller still sleeps.
EveryAcquireReturnsWitness ==
    /\ observed.op = "acquire"
    /\ observed.waited
    /\ \E c \in Callers : callers[c].pc = "sleeping" /\ callers[c].timer > 0

\* -------------------------------------------------------------------------
\* The error retryWithBackoff recorded for attempt i (line 217): the thrown
\* value itself when it is an Error instance.
CaughtAt(i) == asError(run.outcomes[i].thrown)

AllAttemptsFailedRetryably ==
    \A i \in 1..Len(run.outcomes) :
        ~run.outcomes[i].ok /\ isRetryableError(CaughtAt(i))

\* C4: retry exhaustion. fn is never invoked more than maxRetries + 1 times,
\* whatever it does; and a run all of whose attempts failed with an error
\* classified retryable has, once it returned, invoked fn exactly
\* maxRetries + 1 times and returned a failure.
RetryExhaustion ==
    /\ run.invoked <= config.maxRetries + 1
    /\ (run.pc = "returned" /\ AllAttemptsFailedRetryably) =>
          /\ run.invoked = config.maxRetries + 1
          /\ ~run.result.success
          /\ run.result.attempts = config.maxRetries + 1

RetryExhaustionWitness ==
    /\ run.pc = "returned"
    /\ AllAttemptsFailedRetryably
    /\ config.maxRetries >= 2
    /\ run.invoked = 3

\* C5: non-retryable short-circuit. The step in which an attempt fails with an
\* error classified non-retryable returns the failure: no sleep is started, no
\* delay is added and fn is not invoked, in that step or ever after (a returned
\* run does nothing more); so a run whose first attempt failed that way has
\* invoked fn exactly once, whatever maxRetries is.
NonRetryableStep ==
    LET n == Len(run'.outcomes)
    IN  (n = Len(run.outcomes) + 1 /\ ~run'.outcomes[n].ok
           /\ ~isRetryableError(asError(run'.outcomes[n].thrown))) =>
          /\ run'.pc = "returned"
          /\ ~run'.result.success
          /\ run'.invoked = run.invoked
          /\ run'.slept = run.slept
          /\ run'.totalDelay = run.totalDelay

ReturnedIsFinal == run.pc = "returned" => run' = run

FirstAttemptNotRetryable ==
    /\ Len(run.outcomes) >= 1
    /\ ~run.outcomes[1].ok
    /\ ~isRetryableError(CaughtAt(1))

NonRetryableShortCircuit ==
    /\ [][NonRetryableStep /\ ReturnedIsFinal]_vars
    /\ [](FirstAttemptNotRetryable => run.invoked = 1 /\ run.pc = "returned" /\ run.slept = 0)

\* A run with retries left returned after one failing, non-retryable attempt.
NonRetryableShortCircuitWitness ==
    /\ FirstAttemptNotRetryable
    /\ run.pc = "returned"
    /\ config.maxRetries >= 2
    /\ outer.raised

\* C6: the failure result, and the error retryWithBackoffOrThrow raises, carry
\* the error of the last attempt made, not an earlier one.
LastErrorReported ==
    /\ (run.pc = "returned" /\ ~run.result.success) =>
          /\ Len(run.outcomes) >= 1
          /\ run.result.error = CaughtAt(Len(run.outcomes))
          /\ run.result.error.id = run.invoked
    /\ outer.raised => outer.error = CaughtAt(Len(run.outcomes))

\* Three attempts failed with different errors and the last one was raised.
LastErrorReportedWitness ==
    /\ outer.raised
    /\ Len(run.outcomes) = 3
    /\ run.outcomes[1].thrown.message # run.outcomes[3].thrown.message
    /\ outer.error.id = 3

\* C7: retryWithBackoff never raises. It ends by returning a result object:
\* success with the data of the first attempt that resolved, reached in the
\* step that attempt resolved in, or failure with an error. Only
\* retryWithBackoffOrThrow raises, and exactly when that result is a failure.
ResultWellFormed ==
    LET n == Len(run.outcomes)
    IN  /\ run.pc \in {"ready", "calling", "sleeping", "returned"}
        /\ run.pc = "returned" =>
              /\ n >= 1
              /\ run.invoked = n
              /\ run.result.attempts = n
              /\ run.slept = n - 1
              /\ \A i \in 1..(n - 1) : ~run.outcomes[i].ok
              /\ run.result.success = run.outcomes[n].ok
              /\ run.result.success => run.result.data = run.outcomes[n].data
              /\ ~run.result.success => run.result.error.kind = "Error"
        /\ (\E i \in 1..n : run.outcomes[i].ok) => run.pc = "returned" /\ run.result.success
        /\ outer.settled =>
              /\ run.pc = "returned"
              /\ outer.raised = ~run.result.success
              /\ ~outer.raised => outer.value = run.result.data

NeverRaises == [](ResultWellFormed) /\ [][ReturnedIsFinal]_vars

\* The third attempt resolved after two retryable failures and the wrapper
\* resolved with its data.
NeverRaisesWitness ==
    /\ outer.settled
    /\ ~outer.raised
    /\ Len(run.outcomes) = 3
    /\ outer.value = Response("d2", "fn", 3)

\* -------------------------------------------------------------------------
\* C8: isRetryableError applies its rules in order. (a) A value carrying a
\* retryable flag is classified by the flag alone (retryable iff the flag is
\* true), whatever its message. (b) Otherwise an Error whose lower-cased
\* message contains a network-fault signature is retryable. (c) Otherwise an
\* Error whose message matches /status\s+(\d{3})/ is retryable iff the code is
\* 429, 502 or 503. (d) Everything else, a value that is no Error instance
\* included, is not retryable.
CarriesFlag(e) == e.kind \in {"Error", "object"} /\ e.flag # "absent"

HasNetworkSignature(e) ==
    \E i \in 1..Len(e.message) : lowerLexeme(e.message[i]) \in networkPatterns

EmbeddedStatus(e) == statusMatch(toLowerCase(e.message))

RulesInOrder ==
    verdict.called =>
        /\ CarriesFlag(err) => (verdict.value <=> err.flag = "true")
        /\ (~CarriesFlag(err) /\ err.kind = "Error" /\ HasNetworkSignature(err)) => verdict.value
        /\ (~CarriesFlag(err) /\ err.kind = "Error" /\ ~HasNetworkSignature(err)
              /\ EmbeddedStatus(err) >= 0) =>
                 (verdict.value <=> EmbeddedStatus(err) \in {429, 502, 503})
        /\ (~CarriesFlag(err) /\ err.kind = "Error" /\ ~HasNetworkSignature(err)
              /\ EmbeddedStatus(err) < 0) => ~verdict.value
        /\ (~CarriesFlag(err) /\ err.kind # "Error") => ~verdict.value

\* An error flagged not retryable, whose message holds both a network-fault
\* signature and a retryable status code, was classified.
RulesInOrderWitness ==
    /\ verdict.called
    /\ err.kind = "Error"
    /\ err.flag = "false"
    /\ HasNetworkSignature(err)
    /\ ~verdict.value

\* -------------------------------------------------------------------------
\* The remote calls the current generateContent call made in each phase
PrimaryCalls == {i \in 1..Len(call.remote) : call.remote[i].phase = "primary"}

FallbackCalls == {i \in 1..Len(call.remote) : call.remote[i].phase = "fallback"}

PrimaryFailed == call.primaryError # NoError

\* C9: generateContent calls the fallback model if and only if the primary
\* run failed after all of its maxRetries + 1 attempts, a fallback model is
\* configured, it differs from the model of the call, and the error the primary
\* run ended with is retryable. A call whose primary run succeeded, ended with a
\* non-retryable error, or that has no fallback model or the same model makes
\* no fallback call; fallback calls go to the fallback model, after every
\* primary call.
FallbackIffRetryableFailure ==
    /\ FallbackCalls # {} <=>
          /\ PrimaryFailed
          /\ client.fallbackModel # ""
          /\ call.model # client.fallbackModel
          /\ isRetryableError(call.primaryError)
    /\ FallbackCalls # {} =>
          /\ Cardinality(PrimaryCalls) = client.retryConfig.maxRetries + 1
          /\ call.primaryError.id = client.retryConfig.maxRetries + 1
          /\ \A i \in FallbackCalls :
                /\ call.remote[i].model = client.fallbackModel
                /\ \A j \in PrimaryCalls : j < i
    /\ \A j \in PrimaryCalls : call.remote[j].model = call.model
    /\ (call.pc = "resolved" /\ ~PrimaryFailed) => FallbackCalls = {}

\* The primary model was retried, its last attempt failed with a retryable
\* error, and the fallback model is being called.
FallbackIffRetryableFailureWitness ==
    /\ call.pc = "fallback"
    /\ client.retryConfig.maxRetries >= 1
    /\ call.model = "A"
    /\ client.fallbackModel = "B"
    /\ FallbackCalls # {}

\* The step in which a call that reached the fallback model rejects
RejectsAfterFallback == call.pc = "fallback" /\ call'.pc = "rejected"

\* C10: when the primary and the fallback model both failed, generateContent
\* rejects with the error the primary run ended with, and that error is the one
\* recorded in the metrics, once; no error thrown by a fallback call is thrown
\* to the caller or recorded. When the fallback succeeds, generateContent
\* resolves with the result of the fallback call that succeeded.
PrimaryErrorSurfaces ==
    /\ [](call.pc = "rejected" =>
            /\ call.error = call.primaryError
            /\ metrics.lastError = call.primaryError
            /\ call.error.id \in PrimaryCalls)
    /\ []((call.pc = "resolved" /\ FallbackCalls # {}) =>
            /\ call.data.model = client.fallbackModel
            /\ call.data.id = Len(call.remote)
            /\ call.data.id \in FallbackCalls)
    /\ [][RejectsAfterFallback =>
            /\ metrics'.errorsTotal = metrics.errorsTotal + 1
            /\ metrics'.lastError = call.primaryError
            /\ metrics'.lastError.id \notin FallbackCalls]_vars

\* Both models failed: the call rejected after fallback calls were made.
PrimaryErrorSurfacesWitness ==
    /\ call.pc = "rejected"
    /\ FallbackCalls # {}
    /\ Cardinality(FallbackCalls) > 1

\* -------------------------------------------------------------------------
\* C11 as stated: within one generateContent call the fallback model is invoked
\* at most 2 times.
FallbackAtMostTwoCalls == Cardinality(FallbackCalls) <= 2

\* C11, amended: the fallback run is given maxRetries 2, that is 2 retries after
\* its first attempt, so within one generateContent call the fallback model is
\* invoked at most 3 times (FallbackMaxRetries + 1), and it is invoked a third
\* time only after two fallback attempts failed with a retryable error.
FallbackAtMostThreeCalls ==
    /\ Cardinality(FallbackCalls) <= FallbackMaxRetries + 1
    /\ call.pc = "fallback" => call.run.attempt + 1 = Cardinality(FallbackCalls)
    /\ (call.pc = "fallback" /\ call.run.attempt > 0) => isRetryableError(call.run.lastError)

\* The fallback model is being invoked for the third time in one call.
FallbackAtMostThreeCallsWitness ==
    /\ call.pc = "fallback"
    /\ call.run.pc = "calling"
    /\ Cardinality(FallbackCalls) = FallbackMaxRetries + 1

\* -------------------------------------------------------------------------
\* The items of the batch by where their generateContent call stands
Items == 1..Len(batch.items)

InFlight == {i \in Items : batch.items[i].pc \in {"primary", "fallback"}}

Resolved_ == {i \in Items : batch.items[i].pc = "resolved"}

Rejected_ == {i \in Items : batch.items[i].pc = "rejected"}

\* C12: under every interleaving of concurrent generateContent calls,
\* requestsPending is the number of calls admitted (counted, their primary run
\* started) and not yet settled, requestsTotal the number of calls ever
\* admitted, so 0 <= requestsPending <= requestsTotal and requestsPending is 0
\* when no call is in flight; a call not yet counted has made no remote call,
\* and each step counts at most one call in and one call out.
PendingCountsInFlight ==
    /\ [](/\ metrics.requestsPending = Cardinality(InFlight)
          /\ metrics.requestsTotal = Cardinality(InFlight \cup Resolved_ \cup Rejected_)
          /\ 0 <= metrics.requestsPending
          /\ metrics.requestsPending <= metrics.requestsTotal
          /\ \A i \in Items : batch.items[i].pc \in {"acquiring", "acquired"} =>
                batch.items[i].remote = <<>>)
    /\ [][/\ metrics'.requestsTotal \in {metrics.requestsTotal, metrics.requestsTotal + 1}
          /\ metrics'.requestsPending - metrics.requestsPending \in {-1, 0, 1}
          /\ metrics'.requestsTotal = metrics.requestsTotal + 1 =>
                metrics'.requestsPending = metrics.requestsPending + 1]_vars

\* One call of the batch has rejected while another, admitted too, is calling
\* the fallback model.
PendingCountsInFlightWitness ==
    /\ batch.pc = "running"
    /\ Rejected_ # {}
    /\ \E i \in InFlight : batch.items[i].pc = "fallback"
    /\ metrics.requestsTotal = 2
    /\ metrics.requestsPending = 1

\* The step in which item i's generateContent call rejects / resolves
RejectsNow(i) == i \in InFlight /\ batch'.items[i].pc = "rejected"

ResolvesNow(i) == i \in InFlight /\ batch'.items[i].pc = "resolved"

\* C13: the step in which a generateContent call rejects records the error it
\* rejects with in the metrics (errorsTotal one more, lastError that error,
\* lastErrorTime set); a step in which a call resolves, after fallback calls or
\* not, leaves errorsTotal and lastError as they were; so errorsTotal always is
\* the number of calls that have rejected.
RejectionsRecorded ==
    /\ [](/\ metrics.errorsTotal = Cardinality(Rejected_)
          /\ metrics.lastErrorTimeSet <=> metrics.errorsTotal > 0
          /\ metrics.errorsTotal > 0 =>
                \E i \in Rejected_ : metrics.lastError = batch.items[i].error
          /\ metrics.errorsTotal = 0 => metrics.lastError = NoError)
    /\ [][\A i \in Items :
            /\ RejectsNow(i) =>
                 /\ metrics'.errorsTotal = metrics.errorsTotal + 1
                 /\ metrics'.lastError = batch'.items[i].error
                 /\ metrics'.lastErrorTimeSet
            /\ ResolvesNow(i) =>
                 /\ metrics'.errorsTotal = metrics.errorsTotal
                 /\ metrics'.lastError = metrics.lastError
                 /\ metrics'.lastErrorTimeSet = metrics.lastErrorTimeSet]_vars

\* One call resolved through the fallback model and another call rejected.
RejectionsRecordedWitness ==
    /\ metrics.errorsTotal = 1
    /\ \E i \in Resolved_ : batch.items[i].primaryError # NoError
    /\ \E j \in Rejected_ : metrics.lastError = batch.items[j].error

\* C14: generateContentBatch ends by returning, never by rejecting, and only
\* when every item has settled; it returns one outcome per request, outcome i
\* being that of request i in whatever order the items settled: success with
\* the result of request i's own generateContent call, or success = false with
\* the error that call rejected with (a timeout included). An item that failed
\* leaves every other item to settle with its own result, and a settled item is
\* never altered afterwards.
BatchIsolation ==
    /\ [](/\ batch.pc \in {"idle", "running", "returned"}
          /\ batch.pc = "returned" =>
               /\ Len(batch.out) = Len(batch.items)
               /\ Items = Resolved_ \cup Rejected_
               /\ \A i \in Items :
                    /\ batch.out[i].success <=> i \in Resolved_
                    /\ i \in Resolved_ =>
                         /\ batch.out[i].data = batch.items[i].data
                         /\ ItemOf(batch.out[i].data.id) = i
                    /\ i \in Rejected_ =>
                         /\ batch.out[i].error = batch.items[i].error
                         /\ ItemOf(batch.out[i].error.id) = i)
    /\ [][\A i \in Resolved_ \cup Rejected_ : batch'.items[i] = batch.items[i]]_vars

\* A batch returned whose first request failed by timeout, after retries, and
\* whose second request succeeded.
BatchIsolationWitness ==
    /\ batch.pc = "returned"
    /\ Len(batch.items) = 2
    /\ ~batch.out[1].success
    /\ batch.out[1].error.code = "TIMEOUT"
    /\ Len(batch.items[1].remote) > 1
    /\ batch.out[2].success

\* -------------------------------------------------------------------------
\* The planning call of the researchCall has resolved
PlanResolved == research.pc \notin {"idle", "planning"} /\ research.error # Failure(PlanCall)

Settled(slot) == slot.status \in {"fulfilled", "rejected"}

Started == {i \in 1..Len(research.slots) : research.slots[i].status # "idle"}

\* C15: a researchCall makes one planning call; it starts a sub-query call only
\* in or after the step in which the planning call resolved, and makes its one
\* synthesis call only in a step after which every sub-query call has settled,
\* in parallel and in sequential mode alike.
PhaseOrdered ==
    /\ [](/\ research.pc # "idle" => research.calls.plan = 1
          /\ research.calls.synthesis <= 1
          /\ research.pc \in {"idle", "planning"} =>
                research.calls.sub = 0 /\ research.calls.synthesis = 0 /\ research.slots = <<>>
          /\ Started # {} => PlanResolved
          /\ research.calls.synthesis = 1 <=> research.pc \in {"synthesizing", "returned"}
                                              \/ research.error = Failure(SynthesisCall)
          /\ research.calls.synthesis = 1 =>
                \A i \in 1..Len(research.slots) : Settled(research.slots[i]))
    /\ [][/\ research'.calls.plan # research.calls.plan => research.pc = "idle"
          /\ research'.calls.sub > research.calls.sub =>
                research.pc \in {"planning", "executing"} /\ research'.pc = "executing"
          /\ research'.calls.synthesis > research.calls.synthesis =>
                /\ research.pc = "executing"
                /\ research.calls.synthesis = 0
                /\ \A i \in 1..Len(research'.slots) : Settled(research'.slots[i])]_vars

\* A parallel researchCall of three sub-queries, one of which failed, makes its
\* synthesis call.
PhaseOrderedWitness ==
    /\ research.pc = "synthesizing"
    /\ research.concurrency = "parallel"
    /\ Len(research.slots) = 3
    /\ \E i \in 1..3 : research.slots[i].status = "rejected"

\* C16 as stated: whatever text the planning call resolves with, researchCall
\* does not fail in the plan phase and executes at least one sub-query; when
\* JSON.parse and the extraction both fail or give no query, the plan is the
\* question alone.
PlanNeverFails ==
    PlanResolved =>
        /\ research.error # TypeError
        /\ Len(research.queriesToRun) >= 1
        /\ research.calls.sub >= 1
        /\ (~JSONparse(research.planText).ok /\ naiveExtraction(research.planText) = <<>>) =>
              research.plan = <<research.question>>

\* C17: the executed plan is the first min(len(plan), max(1, maxSteps)) queries
\* of the plan, in order; exactly these sub-queries get a slot, each slot is
\* called at most once and none beyond them, all of them once researchCall
\* returns, and the queries of the result are the executed plan.
ExecutedPlanIsPrefix ==
    (PlanResolved /\ research.error # TypeError) =>
        /\ Len(research.queriesToRun) = IF research.maxSteps >= 1
                                          THEN Min(Len(research.plan), research.maxSteps)
                                          ELSE 1
        /\ \A i \in 1..Len(research.queriesToRun) : research.queriesToRun[i] = research.plan[i]
        /\ Len(research.slots) = Len(research.queriesToRun)
        /\ \A i \in 1..Len(research.slots) : research.slots[i].q = research.queriesToRun[i]
        /\ research.calls.sub = Cardinality(Started)
        /\ research.pc = "returned" =>
              /\ research.result.queries = research.queriesToRun
              /\ research.calls.sub = Len(research.queriesToRun)

\* A plan of three queries was cut to two, both were run and researchCall returned.
ExecutedPlanIsPrefixWitness ==
    /\ research.pc = "returned"
    /\ Len(research.plan) = 3
    /\ research.maxSteps = 2
    /\ Len(research.result.queries) = 2

\* The note of slot i is that slot's own outcome
OwnNote(i) ==
    LET slot == research.slots[i]
        note == research.perQueryNotes[i]
    IN  /\ note.q = research.queriesToRun[i]
        /\ slot.status = "fulfilled" =>
             note.text = slot.text /\ note.sources = slot.sources /\ note.text.of = i
        /\ slot.status = "rejected" =>
             /\ note.text = Placeholder(Failure(i))
             /\ note.sources = <<>>

\* C18: in parallel mode every sub-query call is made in the step in which the
\* planning call resolved, before any is awaited; once all have settled there
\* is one note per executed query, in plan order, the note of a failed call
\* being the placeholder made of its error with no sources and every other note
\* the result of its own call, and the synthesis call is made.
ParallelSlots ==
    /\ []((research.concurrency = "parallel" /\ PlanResolved /\ research.error # TypeError) =>
            /\ Started = 1..Len(research.queriesToRun)
            /\ research.calls.sub = Len(research.queriesToRun)
            /\ (\A i \in 1..Len(research.slots) : Settled(research.slots[i])) =>
                 /\ research.calls.synthesis = 1
                 /\ Len(research.perQueryNotes) = Len(research.queriesToRun)
                 /\ \A i \in 1..Len(research.slots) : OwnNote(i))
    /\ [][(research.concurrency = "parallel" /\ research'.calls.sub # research.calls.sub) =>
            /\ research.pc = "planning"
            /\ pending(research') = 1..Len(research'.queriesToRun)]_vars

\* A parallel researchCall holds, after the settlement of all its calls, the
\* placeholder of its second sub-query between the results of the first and third.
ParallelSlotsWitness ==
    /\ research.concurrency = "parallel"
    /\ research.pc = "synthesizing"
    /\ Len(research.perQueryNotes) = 3
    /\ research.perQueryNotes[1].text = TextOf(1)
    /\ research.perQueryNotes[2].text = Placeholder(Failure(2))
    /\ research.perQueryNotes[3].text.of = 3

\* C19: in sequential mode at most one sub-query call is in flight, the call of
\* a sub-query is made only once the calls of all earlier ones resolved, and a
\* sub-query that fails makes researchCall reject with its error; a synthesis
\* call is made, and a result returned, only with one note per executed query,
\* each the result of its own call.
SequentialInOrder ==
    (research.concurrency = "sequential" /\ PlanResolved /\ research.error # TypeError) =>
        /\ Cardinality(pending(research)) <= 1
        /\ \A i \in Started : \A j \in 1..(i - 1) : research.slots[j].status = "fulfilled"
        /\ \A i \in 1..Len(research.slots) : research.slots[i].status = "rejected" =>
              research.pc = "rejected" /\ research.error = Failure(i)
        /\ research.calls.synthesis = 1 =>
              /\ Len(research.perQueryNotes) = Len(research.queriesToRun)
              /\ \A i \in 1..Len(research.slots) :
                    research.slots[i].status = "fulfilled" /\ OwnNote(i)
        /\ research.pc = "executing" =>
              /\ Len(research.perQueryNotes) = Cardinality(Started) - 1
              /\ \A i \in 1..Len(research.perQueryNotes) : OwnNote(i)

\* A sequential researchCall rejected with the error of its second sub-query,
\* the third never called.
SequentialInOrderWitness ==
    /\ research.concurrency = "sequential"
    /\ research.pc = "rejected"
    /\ Len(research.slots) = 3
    /\ research.slots[1].status = "fulfilled"
    /\ research.error = Failure(2)
    /\ research.slots[3].status = "idle"

\* The uris the result reports
Reported == {research.result.sources[k].uri : k \in 1..Len(research.result.sources)}

\* C20 as stated: in either mode, when exactly one sub-query call of several
\* failed and all others succeeded, researchCall (its synthesis call not
\* failing) returns a result, which reports the sources of the successful ones.
OneFailureStillReports ==
    LET failed == {i \in 1..Len(research.slots) : research.slots[i].status = "rejected"}
        succeeded == {i \in 1..Len(research.slots) : research.slots[i].status = "fulfilled"}
    IN  (/\ Len(research.slots) >= 2
         /\ Cardinality(failed) = 1
         /\ Cardinality(succeeded) = Len(research.slots) - 1
         /\ research.pc \in {"returned", "rejected"}
         /\ research.error # Failure(SynthesisCall)) =>
            /\ research.pc = "returned"
            /\ \A i \in succeeded : \A k \in 1..Len(research.slots[i].sources) :
                  research.slots[i].sources[k].uri \in Reported

\* The text a settled slot contributes to the findings: its own text, or the
\* placeholder of its error
Finding(slot) == IF slot.status = "fulfilled" THEN slot.text ELSE Placeholder(slot.reason)

\* C21: the text of researchCall's result is the text of the synthesis call
\* when that text is not empty; when the synthesis call resolved with empty
\* text it is the join of the texts of all sub-queries, placeholders included,
\* in plan order.
ResultText ==
    research.pc = "returned" =>
        IF research.synthesisText.k # "empty"
          THEN research.result.text = <<research.synthesisText>>
          ELSE /\ Len(research.result.text) = Len(research.queriesToRun)
               /\ \A i \in 1..Len(research.slots) :
                     research.result.text[i] = Finding(research.slots[i])

\* The synthesis call of a parallel researchCall gave no text: the result is
\* the first sub-query's text followed by the placeholder of the second.
ResultTextWitness ==
    /\ research.pc = "returned"
    /\ research.synthesisText = Empty(SynthesisCall)
    /\ research.result.text = <<TextOf(1), Placeholder(Failure(2))>>

\* The sources of the fulfilled slots i, i + 1, ..., in plan order
RECURSIVE Cited(_)
Cited(i) ==
    IF i > Len(research.slots) THEN <<>>
    ELSE (IF research.slots[i].status = "fulfilled" THEN research.slots[i].sources ELSE <<>>)
           \o Cited(i + 1)

\* Where the uri u is cited first
FirstOf(all, u) == CHOOSE k \in 1..Len(all) : all[k].uri = u /\ \A j \in 1..(k - 1) : all[j].uri # u

\* C22: the sources of researchCall's result hold every uri cited by a
\* successful sub-query exactly once and no other, each with the title of its
\* first citation, ordered by first citation over the sub-queries in plan order.
SourcesDeduplicated ==
    research.pc = "returned" =>
        LET all == Cited(1)
            out == research.result.sources
        IN  /\ {out[k].uri : k \in 1..Len(out)} = {all[k].uri : k \in 1..Len(all)}
            /\ \A k, l \in 1..Len(out) : out[k].uri = out[l].uri => k = l
            /\ \A k \in 1..Len(out) : out[k] = all[FirstOf(all, out[k].uri)]
            /\ \A k, l \in 1..Len(out) :
                  k < l => FirstOf(all, out[k].uri) < FirstOf(all, out[l].uri)

\* The second sub-query cited u2, u1, u2 and the first u1: the result lists u1
\* with the title of the first sub-query, then u2.
SourcesDeduplicatedWitness ==
    /\ research.pc = "returned"
    /\ research.concurrency = "parallel"
    /\ Len(research.slots) = 3
    /\ research.slots[2].status = "rejected"
    /\ Len(research.slots[3].sources) = 3
    /\ research.result.sources = <<Source("u1", 1), Source("u2", 3)>>

\* C30 as stated: whatever the planning call returned and whatever maxSteps
\* researchCall was given, the executed plan, and the queries of the result,
\* hold between 1 and 6 sub-queries.
PlanWithinSix ==
    (PlanResolved /\ research.error # TypeError) =>
        /\ Len(research.queriesToRun) \in 1..MaxSubQueries
        /\ research.calls.sub <= MaxSubQueries
        /\ research.pc = "returned" => Len(research.result.queries) \in 1..MaxSubQueries

\* C27: the remote invocations started never exceed the tokens debited from
\* the bucket. Stated for the invocations the generateContent call under way
\* has started, retries and fallback attempts counted, which are among the
\* invocations started so far: one token for each of them has been debited.
InvocationsWithinDebits == Units(Len(call.remote)) <= granted

\* ------------------------------------------------ the constructor's retry policy
\* A client constructed directly: the retry settings of its ClientConfig and
\* MAX_RETRIES of process.env are chosen independently; no fallback model.
PolicyInit ==
    /\ \E cfg \in ClientConfigs({""}, 0..MaxRetriesBound) : \E m \in 0..MaxRetriesBound :
          env = EnvOf(m) /\ client = GeminiClient(cfg, env)
    /\ metrics = NoMetrics
    /\ call = idleCall
    /\ capacity = 1
    /\ requestsPerMinute = MsPerMinute
    /\ BucketStart
    /\ ClassifyParked
    /\ RetryParked
    /\ OrchParked

PolicyNext ==
    \/ \E t \in {-1, 5} : GenerateContent("", t)
    \/ AcquireWakes
    \/ AfterAcquire
    \/ \E o \in RemoteOutcomes : RemoteSettles(o)
    \/ BackoffDone
    \/ Tick

PolicySpec == PolicyInit /\ [][PolicyNext]_vars

\* The remote invocations the call c made against the primary model
primaryAttempts(c) == Cardinality({i \in 1..Len(c.remote) : c.remote[i].phase = "primary"})

\* C28: a client constructed with retry.maxRetries = m in its ClientConfig
\* makes at most m + 1 attempts against the primary model in a generateContent call.
AttemptsFollowConfig == primaryAttempts(call) <= client.config.retry.maxRetries + 1

\* ------------------------------------------------------------- the factories
\* The values of RATE_LIMIT_RPM and RATE_LIMIT_MAX_BURST in the model: not set,
\* 0, -1, 1, 60 and 2x
RateSettings == {<<>>, <<"0">>, <<"-", "1">>, <<"1">>, <<"6", "0">>, <<"2", "x">>}

\* Before a factory is called: process.env holds any of the settings
EnvInit ==
    /\ \E rpm \in RateSettings, burst \in RateSettings, m \in 0..MaxRetriesBound :
          env = [EnvOf(m) EXCEPT !.RATE_LIMIT_RPM = rpm, !.RATE_LIMIT_MAX_BURST = burst]
    /\ client = GeminiClient(CHOOSE cfg \in ClientConfigs({""}, {0}) : TRUE, EnvOf(0))
    /\ metrics = NoMetrics
    /\ call = idleCall
    /\ BucketParked
    /\ ClassifyParked
    /\ RetryParked
    /\ OrchParked

\* new TokenBucket(settings) (rateLimiter.ts 22..30): a full bucket
built(settings, by) ==
    /\ observed = NotObserved
    /\ capacity' = settings.maxBurst
    /\ requestsPerMinute' = settings.requestsPerMinute
    /\ tokens' = Units(settings.maxBurst)
    /\ elapsed' = 0
    /\ supplied' = Units(settings.maxBurst)
    /\ observed' = [op |-> by, value |-> settings.maxBurst, waited |-> FALSE]
    /\ UNCHANGED <<callers, left, granted, env, metrics, call, classifyVars, retryVars, orchVars>>

\* createGeminiClient() (client.ts 268..302): the client and its token bucket
CreateGeminiClient ==
    /\ built(configFromEnv(env).rateLimiter, "createGeminiClient")
    /\ client' = GeminiClient(configFromEnv(env), env)

\* createRateLimiter() (rateLimiter.ts 104..112)
CreateRateLimiter ==
    /\ built(createRateLimiter(env), "createRateLimiter")
    /\ UNCHANGED client

EnvNext == CreateGeminiClient \/ CreateRateLimiter

EnvSpec == EnvInit /\ [][EnvNext]_vars

\* C29: whatever RATE_LIMIT_RPM and RATE_LIMIT_MAX_BURST hold, the token bucket
\* of the client createGeminiClient creates has capacity >= 1 and a positive
\* refill rate.
ClientBucketCoerced ==
    observed.op = "createGeminiClient" => capacity >= 1 /\ requestsPerMinute >= 1

\* ------------------------------------------------------ health: getMetrics, healthCheck
\* The text executeWithTimeout returns (lines 150..152) for a response whose
\* text accessor gives responseText and whose first part with text holds partText
extractText(responseText, partText) ==
    IF trim(responseText) # "" THEN trim(responseText) ELSE partText

\* What the remote call settles with for a probe: a text, white space only,
\* nothing, or one of RemoteThrows: HTTP 429, a timeout, HTTP 400
ProbeOutcomes ==
    LET id == Len(call.remote)
    IN  IF id = 0 THEN {}
        ELSE {Resolved(Response(extractText(t, t), call.remote[id].model, id)) : t \in {"t", " ", ""}}
               \cup {Threw(v) : v \in {w \in RemoteThrows(id) :
                                          w.status \in {429, 400} \/ w.code # ""}}

\* The steps of the clock: a third of HealthWindow, and a millisecond more
TimeSteps == {HealthWindow \div 3, HealthWindow \div 3 + 1}

HealthInit ==
    /\ \E cfg \in ClientConfigs({"", "B"}, {0, 1}) :
          env = EnvOf(cfg.retry.maxRetries) /\ client = GeminiClient(cfg, env)
    /\ metrics = NoMetrics
    /\ call = idleCall
    /\ capacity = 1
    /\ requestsPerMinute = MsPerMinute
    /\ BucketStart
    /\ ClassifyParked
    /\ RetryParked
    /\ OrchParked

HealthNext ==
    \/ GenerateContent("", -1)
    \/ HealthCheck(-1)
    \/ AcquireWakes
    \/ AfterAcquire
    \/ \E o \in ProbeOutcomes : RemoteSettles(o)
    \/ BackoffDone
    \/ GetMetrics
    \/ \E d \in TimeSteps : TimePasses(d)

HealthSpec == HealthInit /\ [][HealthNext]_vars

\* What getMetrics() would report now
healthy == getMetrics(metrics, tokens).healthy

\* C25: healthy is false from the moment an error is recorded until more than
\* 60 seconds have passed since the most recent one, whatever calls succeeded
\* in between, and true otherwise; a step that records an error makes it
\* false, a call that resolves leaves it as it was.
HealthyIffQuiet ==
    /\ [](healthy <=> (metrics.errorsTotal = 0 \/ metrics.lastErrorAge > HealthWindow))
    /\ [][/\ metrics'.errorsTotal > metrics.errorsTotal => ~healthy'
          /\ (call.pc # "resolved" /\ call'.pc = "resolved") => (healthy' <=> healthy)]_vars

\* getMetrics() returned exactly 60 seconds after the only error, a later call
\* having succeeded: not healthy yet
HealthyIffQuietWitness ==
    /\ observed.op = "getMetrics"
    /\ metrics.errorsTotal = 1
    /\ metrics.requestsTotal = 2
    /\ call.pc = "resolved"
    /\ metrics.lastErrorAge = HealthWindow
    /\ ~healthy

\* C26: healthCheck never raises; it resolves to true exactly when its probe
\* resolved with text that is not empty once trimmed, and to false when the
\* probe failed, whatever the error.
HealthCheckTotal ==
    /\ ~call.health.raised
    /\ call.health.settled <=> (call.probe /\ call.pc \in {"resolved", "rejected"})
    /\ call.health.value <=>
         (call.probe /\ call.pc = "resolved" /\ call.data.text \notin {"", " "})

\* A probe that failed with a timeout: healthCheck resolved to false
HealthCheckTotalWitness ==
    /\ call.probe
    /\ call.pc = "rejected"
    /\ call.error.code = "TIMEOUT"
    /\ call.health.settled
    /\ ~call.health.value

\* ------------------------------------------------- remote failures and timeouts
\* httpOptions.timeout of the attempts of RemoteSpec
AttemptTimeout == HealthWindow \div 3

\* What ai.models.generateContent throws in RemoteSpec: RemoteThrows, and HTTP
\* 503 and 502 carried in status only, HTTP 504 (deadline exceeded), HTTP 408,
\* a message naming a timeout, a message saying "timed out", and the abort of
\* a request given up after httpOptions.timeout
WideThrows(id) ==
    RemoteThrows(id)
    \cup { Value("Error", "absent", <<"x">>, 503, "", id),
           Value("Error", "absent", <<"x">>, 502, "", id),
           Value("Error", "absent", <<"deadline exceeded">>, 504, "", id),
           Value("Error", "absent", <<"x">>, 408, "", id),
           Value("Error", "absent", <<"x", " ", "timeout">>, -1, "", id),
           Value("Error", "absent", <<"timed out">>, -1, "", id),
           Value("Error", "absent", <<"aborted">>, -1, "", id) }

\* Whether v is the abort of a request given up after httpOptions.timeout
aborted(v) == includes(toLowerCase(v.message), "aborted")

WideOutcomes ==
    LET id == Len(call.remote)
    IN  IF id = 0 THEN {}
        ELSE {Resolved(Response("t", call.remote[id].model, id))}
               \cup {Threw(v) : v \in {w \in WideThrows(id) :
                                          aborted(w) => call.attempt.waited >= call.timeout}}

RemoteInit ==
    /\ \E cfg \in ClientConfigs({""}, {0, 1}) :
          env = EnvOf(cfg.retry.maxRetries) /\ client = GeminiClient(cfg, env)
    /\ metrics = NoMetrics
    /\ call = idleCall
    /\ capacity = 1
    /\ requestsPerMinute = MsPerMinute
    /\ BucketStart
    /\ ClassifyParked
    /\ RetryParked
    /\ OrchParked

RemoteNext ==
    \/ GenerateContent("", AttemptTimeout)
    \/ AcquireWakes
    \/ AfterAcquire
    \/ \E o \in WideOutcomes : RemoteSettles(o)
    \/ BackoffDone
    \/ \E d \in TimeSteps : TimePasses(d)

RemoteSpec == RemoteInit /\ [][RemoteNext]_vars

\* Whether the remote reports v as a timeout: HTTP 408 or 504, a code or a
\* message that says so
reportsTimeout(v) ==
    \/ v.status \in {408, 504}
    \/ containsSub(lowerLexeme(v.code), "timedout")
    \/ \E l \in {"timeout", "timed out", "deadline exceeded"} : includes(toLowerCase(v.message), l)

\* What executeWithTimeout threw for the last attempt
attemptError == normalizeThrown(call.attempt.threw)

\* C23: an attempt given up after the effective timeout, or one the remote
\* reports as timed out, ends with an error of the Timeout kind, retryable.
TimedOutAttemptsEndAsTimeout ==
    (/\ call.attempt.settled
     /\ call.attempt.threw # NoError
     /\ \/ aborted(call.attempt.threw) /\ call.attempt.waited >= call.timeout
        \/ reportsTimeout(call.attempt.threw))
    => attemptError.code = "TIMEOUT" /\ isRetryableError(attemptError)

\* C24: a failure carrying HTTP status 429, 502 or 503 is treated as retryable
\* and retried while attempts remain, 429 as a RateLimit error: the call is
\* rejected with it only once the attempts are used up.
RetryableStatusesRetried ==
    (call.attempt.settled /\ call.attempt.threw.status \in retryableStatuses)
    => /\ isRetryableError(attemptError)
       /\ call.attempt.threw.status = 429 => attemptError.code = "RATE_LIMIT_EXCEEDED"
       /\ call.pc = "rejected" => Len(call.remote) = client.retryConfig.maxRetries + 1

\* ------------------------------------------------ the sources of one result
\* A grounding chunk: uri "" stands for a chunk with no web.uri (a null chunk,
\* no web, no uri or an empty one), title "undefined" for a missing title
Chunk(uri, title) == [uri |-> uri, title |-> title]

Chunks == {Chunk("u1", "a"), Chunk("u1", "b"), Chunk("u2", "undefined"), Chunk("", "a")}

\* The sequences of up to n chunks
RECURSIVE ChunkLists(_)
ChunkLists(n) ==
    IF n = 0 THEN {<<>>}
    ELSE ChunkLists(n - 1) \cup {Append(l, c) : l \in {m \in ChunkLists(n - 1) : Len(m) = n - 1}, c \in Chunks}

\* Lines 157..160: groundingChunks.map(...).filter(Boolean)
RECURSIVE extractSources(_)
extractSources(chunks) ==
    IF chunks = <<>> THEN <<>>
    ELSE LET c == Head(chunks)
         IN  (IF c.uri # "" THEN <<Source(c.uri, IF c.title = "undefined" THEN "" ELSE c.title)>>
              ELSE <<>>) \o extractSources(Tail(chunks))

\* What the remote call settles with: a response with grounding chunks, or HTTP 429
GroundedOutcomes ==
    LET id == Len(call.remote)
    IN  IF id = 0 THEN {}
        ELSE {Resolved([Response("t", call.remote[id].model, id) EXCEPT
                          !.sources = extractSources(chunks)]) : chunks \in ChunkLists(MaxChunks)}
               \cup {Threw(v) : v \in {w \in RemoteThrows(id) : w.status = 429}}

SourcesInit ==
    /\ \E cfg \in ClientConfigs({""}, {0, 1}) :
          env = EnvOf(cfg.retry.maxRetries) /\ client = GeminiClient(cfg, env)
    /\ metrics = NoMetrics
    /\ call = idleCall
    /\ capacity = 1
    /\ requestsPerMinute = MsPerMinute
    /\ BucketStart
    /\ ClassifyParked
    /\ RetryParked
    /\ OrchParked

SourcesNext ==
    \/ GenerateContent("", -1)
    \/ AcquireWakes
    \/ AfterAcquire
    \/ \E o \in GroundedOutcomes : RemoteSettles(o)
    \/ BackoffDone
    \/ Tick

SourcesSpec == SourcesInit /\ [][SourcesNext]_vars

\* C31: in the sources of a generateContent result each uri appears at most
\* once, and no source lacks a uri.
SourcesUnique ==
    call.pc = "resolved" =>
        LET out == call.data.sources
        IN  /\ \A k \in 1..Len(out) : out[k].uri # ""
            /\ \A k, l \in 1..Len(out) : out[k].uri = out[l].uri => k = l

\* ------------------------------------------------------- the backoff delays
\* Policies with room for MaxAttempt retries: without jitter, and with a
\* jitterFactor of a tenth and of one
BackoffConfigs ==
    [maxRetries : {MaxAttempt}, baseDelay : {1000}, maxDelay : {1500, 60000}, jitterFactor : {0}]
    \cup [maxRetries : {MaxAttempt}, baseDelay : {1000}, maxDelay : {1500},
          jitterFactor : {1, JitterDen}]

\* A run whose fn keeps failing with a network fault, or resolves
BackoffInit ==
    /\ config \in BackoffConfigs
    /\ run = readyRun
    /\ outer = NotSettled
    /\ ClassifyParked
    /\ BucketParked
    /\ ClientParked
    /\ OrchParked

BackoffNext ==
    \/ RetryStart
    \/ FnResolves(Response("d1", "fn", run.invoked))
    \/ \E rnd \in 0..(RandSteps - 1) :
          FnRejects(Value("Error", "absent", <<"fetch failed">>, -1, "", run.invoked), rnd)
    \/ SleepDone

BackoffSpec == BackoffInit /\ [][BackoffNext]_vars

\* min(1000 * 2^attempt, 60000) for attempts 0..6
DefaultDelays == <<1000, 2000, 4000, 8000, 16000, 32000, 60000>>

\* C32: with jitterFactor 0 the delay slept after attempt k is
\* min(baseDelay * 2^k, maxDelay) exactly; the delays never decrease and stay at
\* maxDelay once it is reached; baseDelay 1000 and maxDelay 60000 give 1000,
\* 2000, 4000, 8000, 16000, 32000, 60000.
BackoffGrowth ==
    config.jitterFactor = 0 =>
        /\ \A k \in 1..Len(run.delays) :
              run.delays[k] = Min(config.baseDelay * 2^(k - 1), config.maxDelay)
        /\ \A k \in 2..Len(run.delays) :
              /\ run.delays[k - 1] <= run.delays[k]
              /\ run.delays[k - 1] = config.maxDelay => run.delays[k] = config.maxDelay
        /\ (config.baseDelay = 1000 /\ config.maxDelay = 60000) =>
              \A k \in 1..Min(Len(DefaultDelays), Len(run.delays)) : run.delays[k] = DefaultDelays[k]

\* Seven sleeps without jitter under the default policy, the last at the cap
BackoffGrowthWitness ==
    /\ config.jitterFactor = 0
    /\ config.baseDelay = 1000
    /\ config.maxDelay = 60000
    /\ Len(run.delays) = 7
    /\ run.delays[7] = 60000

\* C33: every delay slept between two attempts is a non-negative integer no
\* greater than maxDelay, for every attempt and every jitterFactor in [0, 1].
DelayWithinMax ==
    \A k \in 1..Len(run.delays) : run.delays[k] \in 0..config.maxDelay

\* The sum of a sequence of delays
RECURSIVE SumOf(_)
SumOf(ds) == IF ds = <<>> THEN 0 ELSE Head(ds) + SumOf(Tail(ds))

\* C37: the attempts of a retryWithBackoff run are strictly sequential. fn is
\* invoked once more than it has settled only while an attempt is under way;
\* every attempt before the last one failed; attempt k + 1 starts only after
\* the sleep of calculateDelay(k) that follows attempt k, so there is one sleep
\* fewer than attempts and none after the last one; the result reports the
\* number of invocations of fn and the sum of the delays slept.
SequentialAttempts ==
    /\ [](/\ run.invoked = Len(run.outcomes) + (IF run.pc = "calling" THEN 1 ELSE 0)
          /\ \A k \in 1..(run.invoked - 1) : ~run.outcomes[k].ok
          /\ run.slept = Len(run.delays)
          /\ run.pc = "sleeping" => run.invoked = run.slept
          /\ run.pc \in {"calling", "returned"} => run.invoked = run.slept + 1
          /\ \A k \in 1..Len(run.delays) :
                \E rnd \in 0..(RandSteps - 1) : run.delays[k] = calculateDelay(k - 1, config, rnd)
          /\ run.pc = "returned" =>
                /\ run.result.attempts = run.invoked
                /\ run.slept = run.result.attempts - 1
                /\ run.result.totalDelay = SumOf(run.delays))
    /\ [][run'.invoked # run.invoked =>
             /\ run'.invoked = run.invoked + 1
             /\ run.pc \in {"ready", "sleeping"}
             /\ run.pc = "sleeping" => ~run.outcomes[run.invoked].ok]_vars

\* A run that returned after three attempts and two sleeps of different lengths
SequentialAttemptsWitness ==
    /\ run.pc = "returned"
    /\ run.result.attempts = 3
    /\ Len(run.delays) = 2
    /\ run.delays[1] # run.delays[2]
    /\ run.result.totalDelay = run.delays[1] + run.delays[2]

\* C39: whenever fn throws a value that isRetryableError accepts and attempts
\* remain, fn is retried: a run returns a failure after such a throw only when
\* it was the last attempt.
RetryAgreesWithClassifier ==
    (/\ run.pc = "returned"
     /\ ~run.result.success
     /\ run.outcomes # <<>>
     /\ isRetryableError(run.outcomes[Len(run.outcomes)].thrown))
    => Len(run.outcomes) = config.maxRetries + 1

\* ------------------------------------------------- the queries of the bucket
\* One caller draws tokens; the bucket is queried between its steps
QueryNext ==
    \/ \E n \in 1..capacity : Acquire(1, n)
    \/ TimerFires(1)
    \/ GetAvailableTokens
    \/ \E n \in 1..(capacity + 1) : CalculateWaitTime(n)
    \/ GetEstimatedWaitTime
    \/ Tick
    \/ \E e \in (0 - MaxBack)..ElapsedCap : ClockJump(e)

QuerySpec == BucketInit /\ [][QueryNext]_vars

\* C34: getAvailableTokens, calculateWaitTime and getEstimatedWaitTime consume
\* nothing: the step leaves the tokens the refill gives, never fewer than
\* before, and debits nothing; getAvailableTokens returns that count; the wait
\* returned is never negative and is 0 exactly when the bucket, once refilled,
\* holds the tokens asked for; getEstimatedWaitTime asks for one token.
QueryStep ==
    /\ observed'.op \in {"getAvailableTokens", "calculateWaitTime", "getEstimatedWaitTime"} =>
          /\ tokens' >= tokens
          /\ tokens' = Min(Units(capacity), tokens + Max(0, elapsed) * requestsPerMinute)
          /\ granted' = granted
          /\ observed'.op = "getAvailableTokens" => observed'.value = tokens'
          /\ observed'.op # "getAvailableTokens" => observed'.value >= 0
    /\ \A n \in 1..(capacity + 1) :
          CalculateWaitTime(n) => (observed'.value = 0 <=> tokens' >= Units(n))
    /\ GetEstimatedWaitTime => (observed'.value = 0 <=> tokens' >= Units(1))

QueriesConsumeNothing == [][QueryStep]_vars

\* getEstimatedWaitTime found a bucket that is neither empty nor holding a
\* whole token, and returned a wait
QueriesConsumeNothingWitness ==
    /\ observed.op = "getEstimatedWaitTime"
    /\ observed.value > 0
    /\ tokens > 0
    /\ tokens < Units(1)

\* C35: the effective timeout of a generateContent call is the override when
\* one is given and the client's default otherwise, and every remote attempt
\* of the call, retries and fallback attempts included, is handed that value.
EffectiveTimeout ==
    /\ [](\A k \in 1..Len(call.remote) : call.remote[k].timeout = call.timeout)
    /\ [][\A m \in {""} \cup Models : \A t \in {-1, 5} :
             GenerateContent(m, t) =>
                 call'.timeout = (IF t = -1 THEN client.defaultTimeout ELSE t)]_vars

\* A call with an override that differs from the default has retried on the
\* primary model and reached the fallback model
EffectiveTimeoutWitness ==
    /\ call.pc = "fallback"
    /\ call.timeout = 5
    /\ client.defaultTimeout # 5
    /\ Len(call.remote) >= 3
    /\ call.remote[2].phase = "primary"
    /\ call.remote[Len(call.remote)].timeout = 5

\* The generateContent calls that hold or have used their token
admitted == metrics.requestsTotal + (IF call.pc = "acquired" THEN 1 ELSE 0)

\* C36: each generateContent call debits exactly one token, before its first
\* remote attempt and before it is counted in requestsTotal and
\* requestsPending; retries and fallback attempts debit nothing; a call still
\* waiting for its token has made no remote invocation.
OneTokenPerCall ==
    /\ [](/\ granted = Units(admitted)
          /\ call.pc \in {"acquiring", "acquired"} => call.remote = <<>>
          /\ call.pc \in {"primary", "fallback"} => call.remote # <<>>)
    /\ [][/\ granted' # granted =>
               /\ granted' = granted + Units(1)
               /\ call'.pc = "acquired"
               /\ metrics' = metrics
          /\ metrics'.requestsTotal # metrics.requestsTotal =>
               /\ call.pc = "acquired"
               /\ granted' = granted
               /\ metrics'.requestsTotal = metrics.requestsTotal + 1
               /\ metrics'.requestsPending = metrics.requestsPending + 1
          /\ Len(call'.remote) > Len(call.remote) => granted' = granted]_vars

\* The second call of a client holds its token, not yet counted, after a first
\* call that made several remote attempts
OneTokenPerCallWitness ==
    /\ call.pc = "acquired"
    /\ metrics.requestsTotal = 1
    /\ granted = Units(2)

\* C40: researchCall does not isolate its planning and synthesis calls. When
\* the planning call fails it rejects with that error, having made no
\* sub-query call and no synthesis call; when the synthesis call fails it
\* rejects with that error and returns nothing, whatever the sub-queries gave;
\* it returns only after a synthesis call that resolved.
PlanAndSynthesisNotIsolated ==
    /\ [](/\ research.error = Failure(PlanCall) =>
                /\ research.pc = "rejected"
                /\ research.calls.sub = 0
                /\ research.calls.synthesis = 0
          /\ research.error = Failure(SynthesisCall) =>
                /\ research.pc = "rejected"
                /\ research.result = NoResearchResult
          /\ research.pc = "returned" => research.error = NoError)
    /\ [][/\ PlanFails => research'.pc = "rejected" /\ research'.error = Failure(PlanCall)
          /\ \A o \in SynthesisOutcomes :
                SynthesisSettles(o) =>
                    IF o.ok THEN research'.pc = "returned"
                    ELSE research'.pc = "rejected" /\ research'.error = o.reason]_vars

\* The synthesis call failed after two sub-queries that both succeeded
PlanAndSynthesisNotIsolatedWitness ==
    /\ research.pc = "rejected"
    /\ research.error = Failure(SynthesisCall)
    /\ Len(research.slots) = 2
    /\ \A i \in 1..2 : research.slots[i].status = "fulfilled"

\* ------------------------------------------------ every call settles
\* One operation at a time on a client with a fallback model and one retry,
\* whose bucket holds a single token:
\* generateContentBatch of up to NumCallers items for the default model (more
\* calls than tokens), or
\* researchCall with its grounded calls settling in any way. Every remote
\* attempt eventually settles, the clock keeps advancing, and a timer that ran
\* out or a promise that settled eventually runs its continuation.
SettleInit ==
    /\ \E cfg \in ClientConfigs({"B"}, {1}) :
          env = EnvOf(cfg.retry.maxRetries) /\ client = GeminiClient(cfg, env)
    /\ metrics = NoMetrics
    /\ call = idleCall
    /\ batch = idleBatch
    /\ research = idleResearch
    /\ capacity = 1
    /\ requestsPerMinute = MsPerMinute
    /\ BucketStart
    /\ ClassifyParked
    /\ RetryParked

ItemStep(i) ==
    /\ batch.pc = "running"
    /\ i <= Len(batch.items)
    /\ \/ ItemWakes(i)
       \/ ItemAfterAcquire(i)
       \/ \E o \in ItemOutcomes(batch.items[i], i) : ItemRemoteSettles(i, o)
       \/ ItemBackoffDone(i)

ResearchStep ==
    \/ PlanFails
    \/ research.pc = "planning" /\ \E text \in PlanTexts(MaxPlan) : PlanSettles(text)
    \/ \E i \in pending(research) : \E o \in SubOutcomes(i) : ParallelSubSettles(i, o)
    \/ \E i \in pending(research) : \E o \in SubOutcomes(i) : SequentialSubSettles(i, o)
    \/ research.pc = "synthesizing" /\ \E o \in SynthesisOutcomes : SynthesisSettles(o)

SettleNext ==
    \/ research.pc = "idle" /\ \E n \in Callers : GenerateContentBatch([i \in 1..n |-> ""], -1)
    \/ \E i \in Callers : ItemStep(i)
    \/ BatchReturns
    \/ batch.pc = "running" /\ Tick
    \/ batch.pc = "idle" /\ \E c \in {"parallel", "sequential"} : ResearchCall(JStr(<<"Q">>), -1, c)
    \/ ResearchStep

\* The steps of one call are enabled one at a time, so one condition for each
\* call is fairness for each of its steps.
SettleFairness ==
    /\ WF_vars(batch.pc = "running" /\ Tick)
    /\ WF_vars(BatchReturns)
    /\ \A i \in Callers : WF_vars(ItemStep(i))
    /\ WF_vars(ResearchStep)

SettleSpec == SettleInit /\ [][SettleNext]_vars /\ SettleFairness

\* The remote invocations the call c made against the fallback model
fallbackAttempts(c) == Cardinality({i \in 1..Len(c.remote) : c.remote[i].phase = "fallback"})

\* C38: when every remote attempt eventually settles and the bucket refills,
\* every generateContent call resolves or rejects, after at most maxRetries + 1
\* attempts against the primary model and FallbackMaxRetries + 1 against the
\* fallback model; every generateContentBatch returns, also with more calls
\* than tokens, and every researchCall returns or rejects.
EveryCallSettles ==
    /\ [](/\ \A i \in 1..Len(batch.items) :
              /\ primaryAttempts(batch.items[i]) <= client.retryConfig.maxRetries + 1
              /\ fallbackAttempts(batch.items[i]) <= FallbackMaxRetries + 1
          /\ batch.pc = "returned" =>
                \A i \in 1..Len(batch.items) : batch.items[i].pc \in {"resolved", "rejected"})
    /\ (batch.pc = "running" \/ research.pc # "idle")
          ~> (batch.pc = "returned" \/ research.pc \in {"returned", "rejected"})

\* A batch of more calls than the bucket holds tokens returned, one of its
\* calls having slept between attempts and one having gone to the fallback model.
EveryCallSettlesWitness ==
    /\ batch.pc = "returned"
    /\ Len(batch.items) > capacity
    /\ \E i \in 1..Len(batch.items) : batch.items[i].run.slept > 0
    /\ \E i \in 1..Len(batch.items) : fallbackAttempts(batch.items[i]) > 0

====
